---- MODULE Spec2Model ----
(***************************************************************************)
(* A model of storytoolkitai/core/toolkit_ops/toolkit_ops.py (ToolkitOps): *)
(*   - the interval algebra (combine_intervals, split_audio_by_intervals,  *)
(*     exclude_segments_by_intervals),                                     *)
(*   - the segment stitcher (whisper_transcribe_segments),                 *)
(*   - the ingest dispatcher (add_transcription_to_queue) and the task     *)
(*     handlers (whisper_transcribe, speaker_detection) running under the  *)
(*     processing queue.                                                   *)
(* Times are integers (ticks); a Python list of [start, end] pairs is a    *)
(* sequence of 2-tuples; a Python value that may be None or a non-list is  *)
(* a record [kind, val].                                                   *)
(***************************************************************************)
EXTENDS Integers, Sequences, FiniteSets, TLC

VARIABLES
    call,               \* the pending call of an interval-algebra function: its arguments
    ret,                \* what that call returned
    transcription,      \* the segments stored in each transcription file
    st,                 \* the locals of the running whisper_transcribe_segments
    passes,             \* how many stitching passes have been started
    t_exists,           \* the transcription files that exist
    queue,              \* the processing queue's items, by queue id
    cancel_requested,   \* the queue ids whose cancellation was requested
    whisper_model,      \* self.whisper_model: the loaded model, or "None"
    whisper_model_name, \* self.whisper_model_name
    enq,                \* the thread calling add_transcription_to_queue
    worker,             \* the device slot: the item whose handler runs, and where
    invoked,            \* history: the items whose task handler was invoked
    dep_failed_seen,    \* history: items seen queued with a failed dependency
    cancel_before       \* history: per item, the window before which it was canceled

ia_vars == <<call, ret>>
st_vars == <<transcription, st, passes>>
q_vars == <<queue, cancel_requested, whisper_model, whisper_model_name, enq, worker,
            invoked, dep_failed_seen, cancel_before>>

vars == <<call, ret, transcription, st, passes, t_exists, queue, cancel_requested, whisper_model,
          whisper_model_name, enq, worker, invoked, dep_failed_seen, cancel_before>>

----------------------------------------------------------------------------
(* Bounds of the interval-algebra inputs *)

\* largest time value of a combine_intervals argument
MaxT == 3
\* longest interval list given to combine_intervals
MaxLen == 3
\* largest combine_min_time
MaxGap == 1
\* largest time value of an exclude_segments_by_intervals argument
ExT == 3
\* longest time_intervals list given to exclude_segments_by_intervals
ExLen == 2
\* longest excluded_time_intervals list
ExclLen == 1
\* samples per tick (the sr argument)
SR == 1

----------------------------------------------------------------------------
(* Python values *)

PyList(v) == [kind |-> "list", val |-> v]
PyNone == [kind |-> "none", val |-> <<>>]
\* a value that is neither None nor a list (a tuple, a number, ...)
PyOther == [kind |-> "other", val |-> <<>>]

\* bool(x) of a value that is None, a list or another (non-empty) object
Truthy(x) == CASE x.kind = "list" -> x.val # <<>>
               [] x.kind = "none" -> FALSE
               [] OTHER -> TRUE

Min2(a, b) == IF a <= b THEN a ELSE b
Max2(a, b) == IF a >= b THEN a ELSE b

\* sequences over S of length at most n
SeqsUpTo(S, n) == UNION {[1..k -> S] : k \in 0..n}

\* [start, end] pairs with 0 <= start <= end <= t
Pairs(t) == {<<s, e>> : s \in 0..t, e \in 0..t} \ {<<s, e>> \in (0..t) \X (0..t) : s > e}

----------------------------------------------------------------------------
(* sorted(intervals, key=lambda x: x[0]): Python's sort is stable *)

RECURSIVE insert_by_start(_, _)
insert_by_start(x, s) ==
    IF s = <<>> THEN <<x>>
    ELSE IF x[1] < Head(s)[1] THEN <<x>> \o s
    ELSE <<Head(s)>> \o insert_by_start(x, Tail(s))

RECURSIVE sort_from(_, _)
sort_from(acc, rest) ==
    IF rest = <<>> THEN acc
    ELSE sort_from(insert_by_start(Head(rest), acc), Tail(rest))

\* the mutant of sorted_by_start: the list is left in its given order
sorted_by_start_unsorted(l) == l

sorted_by_start(l) == sort_from(<<>>, l)

----------------------------------------------------------------------------
(* combine_intervals *)

\* the mutant of merge_test: a strict comparison
merge_test_strict(interval, current_timestamp, combine_min_time) ==
    interval[1] - current_timestamp[2] < combine_min_time

\* the test that never merges the next interval into the current one
merge_test_never(interval, current_timestamp, combine_min_time) ==
    interval[1] - current_timestamp[2] <= combine_min_time
        /\ interval[1] > interval[2]

\* line 1030: is the next interval close enough to the current one?
merge_test(interval, current_timestamp, combine_min_time) ==
    interval[1] - current_timestamp[2] <= combine_min_time

\* the loop of lines 1028-1043 over intervals[1:]
RECURSIVE combine_loop(_, _, _, _)
combine_loop(rest, current_timestamp, new_intervals, combine_min_time) ==
    IF rest = <<>> THEN Append(new_intervals, current_timestamp)
    ELSE LET interval == Head(rest) IN
         IF merge_test(interval, current_timestamp, combine_min_time)
         THEN \* current_timestamp[1] = interval[1]
              combine_loop(Tail(rest), <<current_timestamp[1], interval[2]>>,
                           new_intervals, combine_min_time)
         ELSE combine_loop(Tail(rest), interval,
                           Append(new_intervals, current_timestamp), combine_min_time)

combine_intervals(intervals, combine_min_time) ==
    IF ~Truthy(intervals) \/ intervals.kind # "list" \/ Len(intervals.val) = 0
    THEN <<>>
    ELSE LET s == sorted_by_start(intervals.val) IN
         combine_loop(Tail(s), Head(s), <<>>, combine_min_time)

----------------------------------------------------------------------------
(* split_audio_by_intervals: the audio array is its length in samples; an   *)
(* audio segment [start, end, audio[from:to]] is <<start, end, from, to>>   *)

\* audio_array[a:b] of an array of n samples, as the index range it keeps
Slice(n, a, b) ==
    LET lo == Min2(a, n)
        hi == Min2(b, n)
    IN  <<lo, Max2(lo, hi)>>

RECURSIVE windows_of(_, _, _)
windows_of(audio_len, time_intervals, sr) ==
    IF time_intervals = <<>> THEN <<>>
    ELSE LET time_interval == Head(time_intervals)
             s == Slice(audio_len, time_interval[1] * sr, time_interval[2] * sr)
         IN  << <<time_interval[1], time_interval[2], s[1], s[2]>> >>
             \o windows_of(audio_len, Tail(time_intervals), sr)

\* the mutant of split_audio_by_intervals: overlapping segments are combined
\* with a gap of one tick instead of 0
split_audio_by_intervals_gap1(audio_len, time_intervals, sr) ==
    IF time_intervals.kind = "list" /\ Len(time_intervals.val) > 0
    THEN LET t == combine_intervals(PyList(sorted_by_start(time_intervals.val)), 1)
         IN  [audio_segments |-> windows_of(audio_len, t, sr), time_intervals |-> t]
    ELSE [audio_segments |-> << <<0, audio_len, 0, audio_len>> >>,
          time_intervals |-> << <<0, audio_len \div sr>> >>]

split_audio_by_intervals(audio_len, time_intervals, sr) ==
    IF time_intervals.kind = "list" /\ Len(time_intervals.val) > 0
    THEN LET t == combine_intervals(PyList(sorted_by_start(time_intervals.val)), 0)
         IN  [audio_segments |-> windows_of(audio_len, t, sr), time_intervals |-> t]
    ELSE \* time_intervals = [[0, len(audio_array) / sr]]
         \* audio_segments = [[0, len(audio_array / sr), audio_array]]
         [audio_segments |-> << <<0, audio_len, 0, audio_len>> >>,
          time_intervals |-> << <<0, audio_len \div sr>> >>]

----------------------------------------------------------------------------
(* exclude_segments_by_intervals *)

\* lines 1913-1925: one temp_interval against one excluded_interval
split_temp_interval(temp_interval, excluded_interval) ==
    IF excluded_interval[2] <= temp_interval[1] \/ excluded_interval[1] >= temp_interval[2]
    THEN <<temp_interval>>
    ELSE (IF temp_interval[1] < excluded_interval[1]
          THEN << <<temp_interval[1], excluded_interval[1]>> >> ELSE <<>>)
         \o
         (IF temp_interval[2] > excluded_interval[2]
          THEN << <<excluded_interval[2], temp_interval[2]>> >> ELSE <<>>)

\* lines 1911-1925: the loop over temp_intervals
RECURSIVE new_temp_intervals(_, _)
new_temp_intervals(temp_intervals, excluded_interval) ==
    IF temp_intervals = <<>> THEN <<>>
    ELSE split_temp_interval(Head(temp_intervals), excluded_interval)
         \o new_temp_intervals(Tail(temp_intervals), excluded_interval)

\* lines 1907-1928: the loop over excluded_time_intervals
RECURSIVE apply_excluded(_, _)
apply_excluded(temp_intervals, excluded_time_intervals) ==
    IF excluded_time_intervals = <<>> THEN temp_intervals
    ELSE apply_excluded(new_temp_intervals(temp_intervals, Head(excluded_time_intervals)),
                        Tail(excluded_time_intervals))

\* lines 1903-1931: the loop over time_intervals
RECURSIVE new_time_intervals(_, _)
new_time_intervals(time_intervals, excluded_time_intervals) ==
    IF time_intervals = <<>> THEN <<>>
    ELSE apply_excluded(<<Head(time_intervals)>>, excluded_time_intervals)
         \o new_time_intervals(Tail(time_intervals), excluded_time_intervals)

exclude_segments_by_intervals(audio_len, time_intervals, excluded_time_intervals, sr) ==
    IF ~(Truthy(excluded_time_intervals) /\ Truthy(time_intervals))
    THEN split_audio_by_intervals(audio_len, time_intervals, sr)
    ELSE split_audio_by_intervals(
             audio_len,
             PyList(new_time_intervals(time_intervals.val,
                                       sorted_by_start(excluded_time_intervals.val))),
             sr)

----------------------------------------------------------------------------
(* combine_overlapping_intervals: the intersection of two interval lists *)

PyBool == [kind |-> "bool", val |-> <<>>]

NoneOrBool(x) == x.kind \in {"none", "bool"}

RECURSIVE intersect_with_strict(_, _)
\* the inner loop with an overlap test that leaves out touching intervals
intersect_with_strict(interval, additional_intervals) ==
    IF additional_intervals = <<>> THEN <<>>
    ELSE LET additional_interval == Head(additional_intervals)
             hit == additional_interval[1] < interval[2]
                        /\ additional_interval[2] > interval[1]
         IN  (IF hit THEN << <<Max2(interval[1], additional_interval[1]),
                                Min2(interval[2], additional_interval[2])>> >>
                     ELSE <<>>)
             \o intersect_with_strict(interval, Tail(additional_intervals))

RECURSIVE intersect_with(_, _)
\* the inner loop: one interval against every additional interval, in order
intersect_with(interval, additional_intervals) ==
    IF additional_intervals = <<>> THEN <<>>
    ELSE LET additional_interval == Head(additional_intervals)
             hit == additional_interval[1] <= interval[2]
                        /\ additional_interval[2] >= interval[1]
         IN  (IF hit THEN << <<Max2(interval[1], additional_interval[1]),
                                Min2(interval[2], additional_interval[2])>> >>
                     ELSE <<>>)
             \o intersect_with(interval, Tail(additional_intervals))

RECURSIVE intersecting_intervals(_, _)
intersecting_intervals(intervals, additional_intervals) ==
    IF intervals = <<>> THEN <<>>
    ELSE intersect_with(Head(intervals), additional_intervals)
         \o intersecting_intervals(Tail(intervals), additional_intervals)

\* the variant that takes an empty additional list for an absent one
combine_overlapping_intervals_empty_as_absent(intervals, additional_intervals) ==
    IF (NoneOrBool(intervals) /\ additional_intervals.kind = "none")
           \/ additional_intervals.kind = "bool"
    THEN PyNone
    ELSE IF NoneOrBool(intervals) THEN additional_intervals
    ELSE IF additional_intervals.kind = "none" \/ additional_intervals.val = <<>>
         THEN PyList(sorted_by_start(intervals.val))
    ELSE PyList(intersecting_intervals(sorted_by_start(intervals.val),
                                       sorted_by_start(additional_intervals.val)))

\* the condition of the first return reads (A and B) or C in Python
combine_overlapping_intervals(intervals, additional_intervals) ==
    IF (NoneOrBool(intervals) /\ additional_intervals.kind = "none")
           \/ additional_intervals.kind = "bool"
    THEN PyNone
    ELSE IF NoneOrBool(intervals) THEN additional_intervals
    ELSE IF additional_intervals.kind = "none" THEN PyList(sorted_by_start(intervals.val))
    ELSE PyList(intersecting_intervals(sorted_by_start(intervals.val),
                                       sorted_by_start(additional_intervals.val)))

----------------------------------------------------------------------------
(* The transcription store and the inference backend.  Their code is not   *)
(* part of toolkit_ops.py; they are modelled from the documented           *)
(* interfaces: generate_new_id continues from the current maximum,         *)
(* delete_segments_between removes the stored segments whose span overlaps *)
(* [start, end), add_segments appends, and transcribe returns              *)
(* {segments, status?} or raises.                                          *)

\* most segments the backend returns for one audio window
MaxSegs == 1
\* largest window-relative time in a backend segment
RelT == 2
\* most stitching passes over one transcription
MaxPasses == 2
\* largest time value in the time intervals of a stitching pass
StT == 2
\* longest time-interval list of a stitching pass
StLen == 2

\* the length, in samples, of the audio a stitching pass works on
AudioLen == (StT + 1) * SR

MaxId(segments) ==
    IF segments = <<>> THEN -1
    ELSE CHOOSE m \in {segments[i].id : i \in 1..Len(segments)} :
             \A i \in 1..Len(segments) : segments[i].id <= m

\* Transcription.generate_new_segment_id
generate_new_segment_id(segments) == MaxId(segments) + 1

\* a stored segment's span overlaps [start, end)
InSpan(seg, start, end) ==
    \/ seg.start < end /\ seg.end > start
    \/ seg.start = seg.end /\ start <= seg.start /\ seg.start < end

\* Transcription.delete_segments_between
delete_segments_between(segments, start, end) ==
    SelectSeq(segments, LAMBDA seg : ~InSpan(seg, start, end))

\* Transcription.add_segments
add_segments(segments, batch) == segments \o batch

\* a segment as the backend returns it: window-relative times, and whether
\* it carries a non-empty text
BackendSegment == {s \in [start : 0..RelT, end : 0..RelT, text_ok : BOOLEAN] : s.start <= s.end}

\* the backend reports its segments in time order
Chronological(segs) == \A i \in 1..(Len(segs) - 1) : segs[i].start <= segs[i + 1].start

\* what one transcribe call can return for the item q (0: no queue item):
\* a status of canceled is reported only when the cancellation of q was
\* requested
BackendStatus(q) ==
    {"none", "failed"} \cup (IF q \in cancel_requested THEN {"canceled"} ELSE {})

----------------------------------------------------------------------------
(* post_process_whisper_result, with the options the stitcher passes by    *)
(* default (no splitting; prevent_short_gaps given as a number, 0 = off)   *)

RemoveAt(l, n) == [i \in 1..(Len(l) - 1) |-> IF i < n THEN l[i] ELSE l[i + 1]]

\* the gap is left as it is
fill_gap_unfilled(new_result_segments, segment) == new_result_segments

\* line 1582: new_result_segments[-2]['end'] = segment['start']
fill_gap(new_result_segments, segment) ==
    LET k == Len(new_result_segments)
    IN  [new_result_segments EXCEPT ![k].end = segment.start]

RECURSIVE housekeeping(_, _, _, _, _)
\* the loop of lines 1543-1586: n is the position enumerate() has reached in
\* the list result['segments'], which the loop body shortens while iterating
housekeeping(segments, n, new_result_segments, previous_end, prevent_short_gaps) ==
    IF n > Len(segments) THEN new_result_segments
    ELSE LET segment == segments[n]
         IN  IF ~segment.text_ok
             THEN housekeeping(RemoveAt(segments, n), n + 1, new_result_segments,
                               previous_end, prevent_short_gaps)
             ELSE LET fill == /\ previous_end # -1
                              /\ prevent_short_gaps > 0
                              /\ segment.start - previous_end < prevent_short_gaps
                      kept == IF fill THEN fill_gap(new_result_segments, segment)
                                      ELSE new_result_segments
                  IN  housekeeping(segments, n + 1, Append(kept, segment),
                                   segment.end, prevent_short_gaps)

post_process_whisper_result(segments, prevent_short_gaps) ==
    housekeeping(segments, 1, <<>>, -1, prevent_short_gaps)

----------------------------------------------------------------------------
(* whisper_transcribe_segments: the segment stitcher *)

StIdle == [active |-> FALSE, q |-> 0, tk |-> 0, windows |-> <<>>, i |-> 0,
           next_segment_id |-> 0, id_count |-> 0, status |-> "none"]

\* lines 1830-1839: offset by the window start, then clip end and start
offset_and_clip(segment, audio_segment_start, audio_segment_end) ==
    LET start0 == segment.start + audio_segment_start
        end0 == segment.end + audio_segment_start
    IN  [start |-> IF start0 < audio_segment_start THEN audio_segment_start ELSE start0,
         end |-> IF end0 > audio_segment_end THEN audio_segment_end ELSE end0]

\* the id without the running count
segment_id_uncounted(next_segment_id, id_count) == next_segment_id

\* line 1856
segment_id(next_segment_id, id_count) == next_segment_id + id_count

RECURSIVE current_segment_batch(_, _, _, _, _)
\* lines 1819-1863: the segments of one window, offset, clipped and numbered
current_segment_batch(segments, audio_segment, next_segment_id, id_count, win) ==
    IF segments = <<>> THEN <<>>
    ELSE LET t == offset_and_clip(Head(segments), audio_segment[1], audio_segment[2])
         IN  << [id |-> segment_id(next_segment_id, id_count),
                 start |-> t.start, end |-> t.end, win |-> win] >>
             \o current_segment_batch(Tail(segments), audio_segment, next_segment_id,
                                      id_count + 1, win)

\* lines 1737-1756: the locals before the loop over the audio windows
stitch_begin(q, tk, audio_segments) ==
    st' = [active |-> TRUE, q |-> q, tk |-> tk, windows |-> audio_segments, i |-> 1,
           next_segment_id |-> generate_new_segment_id(transcription[tk]),
           id_count |-> 0, status |-> "none"]

StitchLooping == st.active /\ st.i <= Len(st.windows)

\* lines 1757-1876: one iteration of the loop, the backend returning
\* segments and possibly a status
stitch_window(segments, status) ==
    LET audio_segment == st.windows[st.i]
        kept == delete_segments_between(transcription[st.tk], audio_segment[1], audio_segment[2])
        result_segments == post_process_whisper_result(segments, 0)
        batch == current_segment_batch(result_segments, audio_segment, st.next_segment_id,
                                       st.id_count, st.i)
    IN  /\ transcription' = [transcription EXCEPT ![st.tk] = add_segments(kept, batch)]
        /\ st' = [st EXCEPT !.i = @ + 1,
                            !.id_count = @ + Len(result_segments),
                            !.status = status]

\* lines 1757-1786: the backend raises in the iteration, after the stored
\* segments of the window were deleted
stitch_window_raises ==
    LET audio_segment == st.windows[st.i]
    IN  transcription' = [transcription EXCEPT ![st.tk] =
            delete_segments_between(@, audio_segment[1], audio_segment[2])]

----------------------------------------------------------------------------
(* The processing queue.  Its code (ProcessingQueue) is not part of        *)
(* toolkit_ops.py; add_to_queue, add_dependency, update_queue_item,        *)
(* cancel_if_canceled and the dispatch loop are modelled from the          *)
(* documented contract of the job queue.                                   *)

\* most calls of add_transcription_to_queue
MaxCalls == 2
\* most items whose cancellation is requested
MaxCancels == 1

\* each call adds a transcription item and at most one speaker-detection item
MaxItems == 2 * MaxCalls
Items == 1..MaxItems

Terminal == {"done", "failed", "canceled"}

ModelNames == {"medium", "large"}

\* the time_intervals option of a call: none, or two separate ranges
ItemIntervals == {PyNone, PyList(<< <<0, 1>>, <<2, 3>> >>)}

\* what get_speech_intervals can detect: nothing, or one stretch of speech
SpeechIntervals == {<<>>, << <<0, 3>> >>}

\* what the backend returns for a window of a queued transcription
QueueBackendSegments ==
    {<<>>, << [start |-> 0, end |-> 1, text_ok |-> TRUE] >>}

NoOptions == [model_name |-> "medium", time_intervals |-> PyNone,
              excluded_time_intervals |-> PyNone, speaker_detection |-> FALSE]

NoItem == [status |-> "absent", task |-> "none", deps |-> {}, for_item |-> 0,
           fail_error |-> "none", options |-> NoOptions]

EnqIdle == [pc |-> "idle", calls |-> 0, next_queue_id |-> 0,
            speaker_detection_queue_id |-> 0, options |-> NoOptions]

\* reported is history: the statuses failed and canceled that the backend
\* returned for the windows of the running item so far
WorkerIdle == [item |-> 0, pc |-> "idle", processed_segments |-> 0,
               audio_segments |-> <<>>, time_intervals |-> <<>>, reported |-> {}]

\* ProcessingQueue.generate_queue_id: the first id not in use
generate_queue_id == 1 + Cardinality({q \in Items : queue[q].status # "absent"})

\* ProcessingQueue.add_to_queue: the item is stored with status queued
add_to_queue(qu, queue_id, task, for_item, options) ==
    [qu EXCEPT ![queue_id] = [status |-> "queued", task |-> task, deps |-> {},
                              for_item |-> for_item, fail_error |-> "none",
                              options |-> options]]

\* ProcessingQueue.add_dependency: an edge, unless an id is unknown
add_dependency(qu, queue_id, dependency_id) ==
    IF qu[queue_id].status = "absent" \/ qu[dependency_id].status = "absent"
    THEN qu
    ELSE [qu EXCEPT ![queue_id].deps = @ \cup {dependency_id}]

\* ProcessingQueue.update_queue_item(queue_id, status=...)
update_status(qu, queue_id, status) == [qu EXCEPT ![queue_id].status = status]

\* ProcessingQueue.update_queue_item(queue_id, status='failed', fail_error=...)
update_failed(qu, queue_id, fail_error) ==
    [qu EXCEPT ![queue_id].status = "failed", ![queue_id].fail_error = fail_error]

\* ProcessingQueue.cancel_if_canceled: true when the cancellation was requested
cancel_if_canceled(queue_id) == queue_id \in cancel_requested

\* ... and the item is then marked canceled
mark_canceled(qu, queue_id) == update_status(qu, queue_id, "canceled")

\* history: the items that are queued, were not started, and have a failed or
\* canceled dependency in the queue qu
WithFailedDependency(qu, started) ==
    {b \in Items : /\ qu[b].status = "queued"
                   /\ b \notin started
                   /\ \E a \in qu[b].deps : qu[a].status \in {"failed", "canceled"}}

\* every action that changes the queue records that history
QueueBecomes(qu) ==
    /\ queue' = qu
    /\ dep_failed_seen' = dep_failed_seen \cup WithFailedDependency(qu, invoked)

----------------------------------------------------------------------------
(* add_transcription_to_queue, called on the thread that ingests media:    *)
(* the transcription item, then the speaker-detection item, then the       *)
(* dependency between the two                                              *)

CallOptions ==
    [model_name : ModelNames, time_intervals : ItemIntervals,
     excluded_time_intervals : {PyNone}, speaker_detection : BOOLEAN]

\* lines 630-715: the transcription item of a 'transcribe' call is added
add_transcription_to_queue ==
    /\ enq.pc = "idle"
    /\ enq.calls < MaxCalls
    /\ \E options \in CallOptions :
          LET next_queue_id == generate_queue_id
          IN  /\ QueueBecomes(add_to_queue(queue, next_queue_id, "transcribe", 0, options))
              /\ enq' = IF options.speaker_detection
                         THEN [pc |-> "add_speaker_detection",
                               calls |-> enq.calls + 1,
                               next_queue_id |-> next_queue_id,
                               speaker_detection_queue_id |-> 0,
                               options |-> options]
                         ELSE [EnqIdle EXCEPT !.calls = enq.calls + 1]
    /\ UNCHANGED <<ia_vars, st_vars, t_exists, cancel_requested, whisper_model,
                   whisper_model_name, worker, invoked, cancel_before>>

\* lines 718-728: the speaker-detection item is added
add_speaker_detection_to_queue ==
    /\ enq.pc = "add_speaker_detection"
    /\ LET speaker_detection_queue_id == generate_queue_id
       IN  /\ QueueBecomes(add_to_queue(queue, speaker_detection_queue_id, "speaker_detection",
                                        enq.next_queue_id, enq.options))
           /\ enq' = [enq EXCEPT !.pc = "add_dependency",
                                 !.speaker_detection_queue_id = speaker_detection_queue_id]
    /\ UNCHANGED <<ia_vars, st_vars, t_exists, cancel_requested, whisper_model,
                   whisper_model_name, worker, invoked, cancel_before>>

\* line 733: the transcription item becomes a dependency of the
\* speaker-detection item
add_dependency_to_speaker_detection ==
    /\ enq.pc = "add_dependency"
    /\ QueueBecomes(add_dependency(queue, enq.speaker_detection_queue_id, enq.next_queue_id))
    /\ enq' = [EnqIdle EXCEPT !.calls = enq.calls]
    /\ UNCHANGED <<ia_vars, st_vars, t_exists, cancel_requested, whisper_model,
                   whisper_model_name, worker, invoked, cancel_before>>

----------------------------------------------------------------------------
(* The user asks for a cancellation; the dispatch loop *)

\* the cancellation flag of an item that is not terminal is set; when the
\* item is in the loop over its audio windows, the window it has not yet
\* processed is remembered
RequestCancel(q) ==
    /\ queue[q].status \notin Terminal \cup {"absent"}
    /\ q \notin cancel_requested
    /\ Cardinality(cancel_requested) < MaxCancels
    /\ cancel_requested' = cancel_requested \cup {q}
    /\ cancel_before' =
           IF worker.item = q /\ worker.pc = "stitch" /\ StitchLooping
           THEN [cancel_before EXCEPT ![q] = st.i]
           ELSE cancel_before
    /\ UNCHANGED <<ia_vars, st_vars, t_exists, queue, whisper_model, whisper_model_name,
                   enq, worker, invoked, dep_failed_seen>>

FirstPc(task) == IF task = "transcribe" THEN "whisper_transcribe" ELSE "speaker_detection"

\* a queued item whose dependencies are all done is handed to its handler
DispatchStart(q) ==
    /\ worker.item = 0
    /\ queue[q].status = "queued"
    /\ \A a \in queue[q].deps : queue[a].status = "done"
    /\ worker' = [WorkerIdle EXCEPT !.item = q, !.pc = FirstPc(queue[q].task)]
    /\ invoked' = invoked \cup {q}
    /\ UNCHANGED <<ia_vars, st_vars, t_exists, queue, cancel_requested, whisper_model,
                   whisper_model_name, enq, dep_failed_seen, cancel_before>>

\* a queued item with a failed or canceled dependency becomes failed
DispatchFailDependent(q) ==
    /\ worker.item # q
    /\ queue[q].status = "queued"
    /\ \E a \in queue[q].deps : queue[a].status \in {"failed", "canceled"}
    /\ QueueBecomes(update_failed(queue, q, "dependency"))
    /\ UNCHANGED <<ia_vars, st_vars, t_exists, cancel_requested, whisper_model,
                   whisper_model_name, enq, worker, invoked, cancel_before>>

\* the handler returns: the device slot is free again
HandlerReturns == worker' = WorkerIdle

\* the handler raises: the dispatch loop catches the exception and the item
\* becomes failed
HandlerRaises(qu) ==
    /\ QueueBecomes(update_failed(qu, worker.item, "exception"))
    /\ worker' = WorkerIdle

\* a cancellation checkpoint of the running handler: it returns when the
\* cancellation was requested, and goes on to pc otherwise
Checkpoint(pc) ==
    IF cancel_if_canceled(worker.item)
    THEN /\ QueueBecomes(mark_canceled(queue, worker.item))
         /\ HandlerReturns
    ELSE /\ worker' = [worker EXCEPT !.pc = pc]
         /\ UNCHANGED <<queue, dep_failed_seen>>

----------------------------------------------------------------------------
(* whisper_transcribe and the functions it calls, step by step: a step     *)
(* ends at each cancellation checkpoint and at each call of the backend    *)

\* whisper_transcribe lines 2144-2193 and _initialize_whisper_transcribe
\* lines 1943-1962: the transcription file is set up; when a model has to
\* be loaded the status says so
initialize_whisper_transcribe ==
    /\ worker.pc = "whisper_transcribe"
    /\ t_exists' = t_exists \cup {worker.item}
    /\ IF whisper_model = "None"
          \/ whisper_model_name # queue[worker.item].options.model_name
       THEN /\ whisper_model_name' = queue[worker.item].options.model_name
            /\ QueueBecomes(update_status(queue, worker.item, "loading model"))
            /\ worker' = [worker EXCEPT !.pc = "initialize_cancel_1"]
       ELSE /\ worker' = [worker EXCEPT !.pc = "initialize_cancel_3"]
            /\ UNCHANGED <<whisper_model_name, queue, dep_failed_seen>>
    /\ UNCHANGED <<ia_vars, st_vars, cancel_requested, whisper_model, enq, invoked,
                   cancel_before>>

\* lines 1965-1982: checkpoint, then the status 'downloading model' when the
\* settings do not say that the model was downloaded before
initialize_download ==
    /\ worker.pc = "initialize_cancel_1"
    /\ IF cancel_if_canceled(worker.item)
       THEN /\ QueueBecomes(mark_canceled(queue, worker.item))
            /\ HandlerReturns
       ELSE /\ \E model_downloaded_before \in BOOLEAN :
                   QueueBecomes(IF model_downloaded_before THEN queue
                                ELSE update_status(queue, worker.item, "downloading model"))
            /\ worker' = [worker EXCEPT !.pc = "initialize_cancel_2"]
    /\ UNCHANGED <<ia_vars, st_vars, t_exists, cancel_requested, whisper_model,
                   whisper_model_name, enq, invoked, cancel_before>>

\* lines 1985-1986: checkpoint before the model is loaded
initialize_before_load ==
    /\ worker.pc = "initialize_cancel_2"
    /\ Checkpoint("initialize_load")
    /\ UNCHANGED <<ia_vars, st_vars, t_exists, cancel_requested, whisper_model,
                   whisper_model_name, enq, invoked, cancel_before>>

\* lines 1988-2009: the model is loaded; when loading raises, the status
\* becomes failed and the function goes on: reading is_multilingual raises
\* when no model was loaded before, and succeeds on the model loaded before
initialize_load ==
    /\ worker.pc = "initialize_load"
    /\ \E loaded \in BOOLEAN :
          IF loaded
          THEN /\ whisper_model' = whisper_model_name
               /\ worker' = [worker EXCEPT !.pc = "initialize_cancel_3"]
               /\ UNCHANGED <<queue, dep_failed_seen>>
          ELSE /\ UNCHANGED whisper_model
               /\ IF whisper_model = "None"
                  THEN HandlerRaises(update_failed(queue, worker.item, "model load"))
                  ELSE /\ QueueBecomes(update_failed(queue, worker.item, "model load"))
                       /\ worker' = [worker EXCEPT !.pc = "initialize_cancel_3"]
    /\ UNCHANGED <<ia_vars, st_vars, t_exists, cancel_requested, whisper_model_name,
                   enq, invoked, cancel_before>>

\* lines 2012-2015: the last checkpoint of _initialize_whisper_transcribe
initialize_return ==
    /\ worker.pc = "initialize_cancel_3"
    /\ Checkpoint("split_cancel_1")
    /\ UNCHANGED <<ia_vars, st_vars, t_exists, cancel_requested, whisper_model,
                   whisper_model_name, enq, invoked, cancel_before>>

\* _split_audio_into_segments lines 2026-2057: the audio is loaded, checkpoint
split_load_audio ==
    /\ worker.pc = "split_cancel_1"
    /\ Checkpoint("split_intervals")
    /\ UNCHANGED <<ia_vars, st_vars, t_exists, cancel_requested, whisper_model,
                   whisper_model_name, enq, invoked, cancel_before>>

\* lines 2086-2098: the requested time intervals, alone or intersected with
\* the detected speech
requested_intervals(time_intervals, requested) ==
    IF Truthy(requested)
    THEN IF time_intervals.kind = "none" THEN requested
         ELSE combine_overlapping_intervals(requested, time_intervals)
    ELSE time_intervals

\* lines 2062-2102: speech is pre-detected when asked for (no speech: the
\* item fails), and the time intervals to transcribe are settled
split_time_intervals ==
    /\ worker.pc = "split_intervals"
    /\ \E pre_detect_speech \in BOOLEAN, speech \in SpeechIntervals :
          IF pre_detect_speech /\ speech = <<>>
          THEN /\ QueueBecomes(update_failed(queue, worker.item, "no speech"))
               /\ HandlerReturns
          ELSE LET split == split_audio_by_intervals(
                                AudioLen,
                                requested_intervals(
                                    IF pre_detect_speech THEN PyList(speech) ELSE PyNone,
                                    queue[worker.item].options.time_intervals),
                                SR)
               IN  /\ QueueBecomes(IF pre_detect_speech
                                   THEN update_status(queue, worker.item,
                                                      "pre-detecting speech")
                                   ELSE queue)
                   /\ worker' = [worker EXCEPT !.pc = "split_cancel_2",
                                               !.audio_segments = split.audio_segments,
                                               !.time_intervals = split.time_intervals]
    /\ UNCHANGED <<ia_vars, st_vars, t_exists, cancel_requested, whisper_model,
                   whisper_model_name, enq, invoked, cancel_before>>

\* lines 2105-2106: checkpoint after the split
split_before_exclude ==
    /\ worker.pc = "split_cancel_2"
    /\ Checkpoint("split_cancel_3")
    /\ UNCHANGED <<ia_vars, st_vars, t_exists, cancel_requested, whisper_model,
                   whisper_model_name, enq, invoked, cancel_before>>

\* lines 2109-2114: the audio windows without the excluded time intervals,
\* when there are any
without_excluded(audio_segments, time_intervals, excluded_time_intervals) ==
    IF Truthy(excluded_time_intervals)
    THEN exclude_segments_by_intervals(AudioLen, PyList(time_intervals),
                                       excluded_time_intervals, SR).audio_segments
    ELSE audio_segments

\* lines 2109-2127, whisper_transcribe lines 2203-2211 and
\* whisper_transcribe_segments lines 1737-1756: the exclusion, the last
\* checkpoint before the transcription, the status 'transcribing', the
\* stitcher is entered
start_transcribing ==
    /\ worker.pc = "split_cancel_3"
    /\ IF cancel_if_canceled(worker.item)
       THEN /\ QueueBecomes(mark_canceled(queue, worker.item))
            /\ HandlerReturns
            /\ UNCHANGED st
       ELSE /\ QueueBecomes(update_status(queue, worker.item, "transcribing"))
            /\ worker' = [worker EXCEPT !.pc = "stitch"]
            /\ stitch_begin(worker.item, worker.item,
                            without_excluded(
                                worker.audio_segments, worker.time_intervals,
                                queue[worker.item].options.excluded_time_intervals))
    /\ UNCHANGED <<ia_vars, transcription, passes, t_exists, cancel_requested, whisper_model,
                   whisper_model_name, enq, invoked, cancel_before>>

\* whisper_transcribe_segments lines 1757-1876 under whisper_transcribe: one
\* window; a backend that polls the cancellation marks the item canceled
\* and reports the status canceled
transcribe_window ==
    /\ worker.pc = "stitch"
    /\ StitchLooping
    /\ \E segments \in QueueBackendSegments, status \in BackendStatus(worker.item) :
          /\ stitch_window(segments, status)
          /\ QueueBecomes(IF status = "canceled" THEN mark_canceled(queue, worker.item)
                                                 ELSE queue)
          /\ worker' = [worker EXCEPT
                            !.reported = @ \cup ({status} \cap {"failed", "canceled"})]
    /\ UNCHANGED <<ia_vars, passes, t_exists, cancel_requested, whisper_model,
                   whisper_model_name, enq, invoked, cancel_before>>

\* the backend raises in a window: whisper_transcribe lines 2240-2271 write
\* the status failed twice and return
transcribe_window_raises ==
    /\ worker.pc = "stitch"
    /\ StitchLooping
    /\ stitch_window_raises
    /\ st' = StIdle
    /\ QueueBecomes(update_failed(update_failed(queue, worker.item, "error transcribing"),
                                  worker.item, "see app.log"))
    /\ HandlerReturns
    /\ UNCHANGED <<ia_vars, passes, t_exists, cancel_requested, whisper_model,
                   whisper_model_name, enq, invoked, cancel_before>>

\* whisper_transcribe_segments lines 1878-1883 and whisper_transcribe lines
\* 2257-2283: the status of the last window is the status of the run; failed
\* or canceled ends the handler, anything else leads to 'saving files'
transcribe_segments_return ==
    /\ worker.pc = "stitch"
    /\ st.active
    /\ st.i > Len(st.windows)
    /\ st' = StIdle
    /\ IF st.status \in {"failed", "canceled"}
       THEN /\ QueueBecomes(IF st.status = "failed"
                            THEN update_failed(queue, worker.item, "see app.log")
                            ELSE update_status(queue, worker.item, "canceled"))
            /\ HandlerReturns
       ELSE /\ QueueBecomes(update_status(queue, worker.item, "saving files"))
            /\ worker' = [worker EXCEPT !.pc = "saving_files"]
    /\ UNCHANGED <<ia_vars, transcription, passes, t_exists, cancel_requested, whisper_model,
                   whisper_model_name, enq, invoked, cancel_before>>

\* whisper_transcribe lines 2286-2339: the files are saved, last checkpoint,
\* the status done
whisper_transcribe_done ==
    /\ worker.pc = "saving_files"
    /\ QueueBecomes(IF cancel_if_canceled(worker.item)
                    THEN mark_canceled(queue, worker.item)
                    ELSE update_status(queue, worker.item, "done"))
    /\ HandlerReturns
    /\ UNCHANGED <<ia_vars, st_vars, t_exists, cancel_requested, whisper_model,
                   whisper_model_name, enq, invoked, cancel_before>>

----------------------------------------------------------------------------
(* speaker_detection, step by step.  The speaker segments it stores are    *)
(* meta segments; the model keeps the transcript segments only.            *)

\* lines 1595-1640: without a transcription the item fails; otherwise the
\* statuses 'preparing segments' and 'loading'
speaker_detection_begin ==
    /\ worker.pc = "speaker_detection"
    /\ IF queue[worker.item].for_item \notin t_exists
       THEN /\ QueueBecomes(update_failed(queue, worker.item, "no transcription"))
            /\ HandlerReturns
       ELSE /\ QueueBecomes(update_status(queue, worker.item, "loading"))
            /\ worker' = [worker EXCEPT !.pc = "detect_speaker_changes"]
    /\ UNCHANGED <<ia_vars, st_vars, t_exists, cancel_requested, whisper_model,
                   whisper_model_name, enq, invoked, cancel_before>>

\* lines 1643-1667: detect_speaker_changes yields for a segment: the status
\* 'detecting changes', then a checkpoint
speaker_detection_step ==
    /\ worker.pc = "detect_speaker_changes"
    /\ worker.processed_segments < Len(transcription[queue[worker.item].for_item])
    /\ IF cancel_if_canceled(worker.item)
       THEN /\ QueueBecomes(mark_canceled(update_status(queue, worker.item, "detecting changes"),
                                          worker.item))
            /\ HandlerReturns
       ELSE /\ QueueBecomes(update_status(queue, worker.item, "detecting changes"))
            /\ worker' = [worker EXCEPT !.processed_segments = @ + 1]
    /\ UNCHANGED <<ia_vars, st_vars, t_exists, cancel_requested, whisper_model,
                   whisper_model_name, enq, invoked, cancel_before>>

\* lines 1669-1726: the generator is exhausted.  Without time intervals the
\* first segment is read, which raises on a transcription without segments;
\* without detected speakers the handler returns and writes no status; with
\* speakers it stores them and writes the status done
speaker_detection_finish ==
    /\ worker.pc = "detect_speaker_changes"
    /\ worker.processed_segments = Len(transcription[queue[worker.item].for_item])
    /\ IF /\ ~Truthy(queue[worker.item].options.time_intervals)
          /\ transcription[queue[worker.item].for_item] = <<>>
       THEN HandlerRaises(queue)
       ELSE /\ \E speakers_detected \in BOOLEAN :
                   QueueBecomes(IF speakers_detected
                                THEN update_status(queue, worker.item, "done")
                                ELSE queue)
            /\ HandlerReturns
    /\ UNCHANGED <<ia_vars, st_vars, t_exists, cancel_requested, whisper_model,
                   whisper_model_name, enq, invoked, cancel_before>>

----------------------------------------------------------------------------
(* The state after construction (ToolkitOps.__init__, lines 275-280) and   *)
(* the parts of the state a specification leaves at rest                   *)

NoRet == [done |-> FALSE, intervals |-> <<>>, audio_segments |-> <<>>]

NoCall == [fn |-> "none", intervals |-> PyNone, other |-> PyNone, min_gap |-> 0,
           audio_len |-> 0]

CallsAtRest == call = NoCall /\ ret = NoRet

StitchAtRest ==
    /\ transcription = [q \in Items |-> <<>>]
    /\ st = StIdle
    /\ passes = 0
    /\ t_exists = {}

QueueAtRest ==
    /\ queue = [q \in Items |-> NoItem]
    /\ cancel_requested = {}
    /\ whisper_model = "None"
    /\ whisper_model_name = "medium"
    /\ enq = EnqIdle
    /\ worker = WorkerIdle
    /\ invoked = {}
    /\ dep_failed_seen = {}
    /\ cancel_before = [q \in Items |-> 0]

----------------------------------------------------------------------------
(* Repeated stitching passes over one transcription file: each pass is a   *)
(* call of whisper_transcribe_segments without a queue item, on the audio  *)
(* windows of some time intervals                                          *)

StitchInit ==
    /\ CallsAtRest
    /\ transcription = [q \in Items |-> <<>>]
    /\ st = StIdle
    /\ passes = 0
    /\ t_exists = {1}
    /\ queue = [q \in Items |-> NoItem]
    /\ cancel_requested = {}
    /\ whisper_model = "medium"
    /\ whisper_model_name = "medium"
    /\ enq = EnqIdle
    /\ worker = WorkerIdle
    /\ invoked = {}
    /\ dep_failed_seen = {}
    /\ cancel_before = [q \in Items |-> 0]

whisper_transcribe_segments_begin ==
    /\ ~st.active
    /\ passes < MaxPasses
    /\ passes' = passes + 1
    /\ \E time_intervals \in SeqsUpTo(Pairs(StT), StLen) :
          stitch_begin(0, 1, split_audio_by_intervals(AudioLen, PyList(time_intervals),
                                                      SR).audio_segments)
    /\ UNCHANGED <<ia_vars, transcription, t_exists, q_vars>>

whisper_transcribe_segments_window ==
    /\ StitchLooping
    /\ \E segments \in {s \in SeqsUpTo(BackendSegment, MaxSegs) : Chronological(s)},
          status \in BackendStatus(0) :
          stitch_window(segments, status)
    /\ UNCHANGED <<ia_vars, passes, t_exists, q_vars>>

whisper_transcribe_segments_raises ==
    /\ StitchLooping
    /\ stitch_window_raises
    /\ st' = [st EXCEPT !.active = FALSE, !.status = "raised"]
    /\ UNCHANGED <<ia_vars, passes, t_exists, q_vars>>

whisper_transcribe_segments_return ==
    /\ st.active
    /\ st.i > Len(st.windows)
    /\ st' = [st EXCEPT !.active = FALSE]
    /\ UNCHANGED <<ia_vars, transcription, passes, t_exists, q_vars>>

StitchNext ==
    \/ whisper_transcribe_segments_begin
    \/ whisper_transcribe_segments_window
    \/ whisper_transcribe_segments_raises
    \/ whisper_transcribe_segments_return

SpecStitch == StitchInit /\ [][StitchNext]_vars

----------------------------------------------------------------------------
(* The queue at work: the ingesting thread, the user and the dispatch loop *)
(* with one device slot                                                    *)

QueueInit == CallsAtRest /\ StitchAtRest /\ QueueAtRest

QueueNext ==
    \/ add_transcription_to_queue
    \/ add_speaker_detection_to_queue
    \/ add_dependency_to_speaker_detection
    \/ \E q \in Items : RequestCancel(q)
    \/ \E q \in Items : DispatchStart(q)
    \/ \E q \in Items : DispatchFailDependent(q)
    \/ initialize_whisper_transcribe
    \/ initialize_download
    \/ initialize_before_load
    \/ initialize_load
    \/ initialize_return
    \/ split_load_audio
    \/ split_time_intervals
    \/ split_before_exclude
    \/ start_transcribing
    \/ transcribe_window
    \/ transcribe_window_raises
    \/ transcribe_segments_return
    \/ whisper_transcribe_done
    \/ speaker_detection_begin
    \/ speaker_detection_step
    \/ speaker_detection_finish

SpecQueue == QueueInit /\ [][QueueNext]_vars

----------------------------------------------------------------------------
(* The interval-algebra calls: Init draws the arguments, an action applies *)
(* the function.                                                           *)

\* the scenario [[0, 5], [5.5, 8]] with min_gap = 1, in ticks of half a second
ScenarioIntervals == << <<0, 10>>, <<11, 16>> >>
ScenarioCall ==
    [fn |-> "combine_intervals", intervals |-> PyList(ScenarioIntervals),
     other |-> PyNone, min_gap |-> 2, audio_len |-> 0]

CombineCall(v, g) ==
    [fn |-> "combine_intervals", intervals |-> v, other |-> PyNone,
     min_gap |-> g, audio_len |-> 0]

ExcludeCall(v, x) ==
    [fn |-> "exclude_segments_by_intervals", intervals |-> v, other |-> PyList(x),
     min_gap |-> 0, audio_len |-> (ExT + 1) * SR]

IntervalsInit ==
    /\ \/ \E l \in SeqsUpTo(Pairs(MaxT), MaxLen), g \in 0..MaxGap :
              call = CombineCall(PyList(l), g)
       \/ \E v \in {PyNone, PyOther}, g \in 0..MaxGap : call = CombineCall(v, g)
       \/ call = ScenarioCall
    /\ ret = NoRet
    /\ StitchAtRest
    /\ QueueAtRest

ExcludeInit ==
    /\ \/ \E l \in SeqsUpTo(Pairs(ExT), ExLen), x \in SeqsUpTo(Pairs(ExT), ExclLen) :
              call = ExcludeCall(PyList(l), x)
       \/ \E x \in SeqsUpTo(Pairs(ExT), ExclLen) : call = ExcludeCall(PyNone, x)
    /\ ret = NoRet
    /\ StitchAtRest
    /\ QueueAtRest

Call_combine_intervals ==
    /\ call.fn = "combine_intervals"
    /\ ~ret.done
    /\ ret' = [done |-> TRUE,
               intervals |-> combine_intervals(call.intervals, call.min_gap),
               audio_segments |-> <<>>]
    /\ UNCHANGED <<call, st_vars, t_exists, q_vars>>

Call_exclude_segments_by_intervals ==
    /\ call.fn = "exclude_segments_by_intervals"
    /\ ~ret.done
    /\ LET r == exclude_segments_by_intervals(call.audio_len, call.intervals, call.other, SR)
       IN  ret' = [done |-> TRUE, intervals |-> r.time_intervals,
                   audio_segments |-> r.audio_segments]
    /\ UNCHANGED <<call, st_vars, t_exists, q_vars>>

IntervalsNext == Call_combine_intervals
ExcludeNext == Call_exclude_segments_by_intervals

SpecIntervals == IntervalsInit /\ [][IntervalsNext]_vars
SpecExclude == ExcludeInit /\ [][ExcludeNext]_vars

----------------------------------------------------------------------------
(* Calls of combine_overlapping_intervals: each argument is None, a        *)
(* boolean or a list of intervals                                          *)

\* largest time value of a combine_overlapping_intervals argument
OvT == 2
\* longest first list given to combine_overlapping_intervals
OvLen == 2
\* longest additional list given to combine_overlapping_intervals
OvAddLen == 1

OverlapCall(v, a) ==
    [fn |-> "combine_overlapping_intervals", intervals |-> v, other |-> a,
     min_gap |-> 0, audio_len |-> 0]

OverlapInit ==
    /\ \/ \E l \in SeqsUpTo(Pairs(OvT), OvLen), a \in SeqsUpTo(Pairs(OvT), OvAddLen) :
              call = OverlapCall(PyList(l), PyList(a))
       \/ \E l \in SeqsUpTo(Pairs(OvT), OvLen), v \in {PyNone, PyBool} :
              call = OverlapCall(PyList(l), v)
       \/ \E a \in SeqsUpTo(Pairs(OvT), OvAddLen), v \in {PyNone, PyBool} :
              call = OverlapCall(v, PyList(a))
       \/ \E v \in {PyNone, PyBool}, a \in {PyNone, PyBool} : call = OverlapCall(v, a)
    /\ ret = NoRet
    /\ StitchAtRest
    /\ QueueAtRest

Call_combine_overlapping_intervals ==
    /\ call.fn = "combine_overlapping_intervals"
    /\ ~ret.done
    /\ LET r == combine_overlapping_intervals(call.intervals, call.other)
       IN  ret' = [done |-> TRUE, intervals |-> r.val, audio_segments |-> <<>>,
                   value |-> r]
    /\ UNCHANGED <<call, st_vars, t_exists, q_vars>>

OverlapNext == Call_combine_overlapping_intervals

SpecOverlap == OverlapInit /\ [][OverlapNext]_vars

----------------------------------------------------------------------------
(* Calls of split_audio_by_intervals with a sample rate of its own: the    *)
(* audio holds a whole number of seconds                                   *)

\* largest sample rate (samples per tick) of a split_audio_by_intervals call
MaxSr == 2
\* longest audio of a split_audio_by_intervals call, in ticks
SplT == 2
\* longest list given to split_audio_by_intervals
SplLen == 2

SplitCall(v, secs, sr) ==
    [fn |-> "split_audio_by_intervals", intervals |-> v, other |-> PyNone,
     min_gap |-> 0, audio_len |-> secs * sr, sr |-> sr]

SplitInit ==
    /\ \E v \in {PyNone} \cup {PyList(l) : l \in SeqsUpTo(Pairs(SplT), SplLen)},
          secs \in 1..SplT, sr \in 1..MaxSr :
           call = SplitCall(v, secs, sr)
    /\ ret = NoRet
    /\ StitchAtRest
    /\ QueueAtRest

Call_split_audio_by_intervals ==
    /\ call.fn = "split_audio_by_intervals"
    /\ ~ret.done
    /\ LET r == split_audio_by_intervals(call.audio_len, call.intervals, call.sr)
       IN  ret' = [done |-> TRUE, intervals |-> r.time_intervals,
                   audio_segments |-> r.audio_segments]
    /\ UNCHANGED <<call, st_vars, t_exists, q_vars>>

SplitNext == Call_split_audio_by_intervals

SpecSplit == SplitInit /\ [][SplitNext]_vars

----------------------------------------------------------------------------
(* Calls of _split_audio_into_segments, from the time intervals on: the     *)
(* requested intervals, the pre-detected speech and the excluded intervals  *)
(* give the audio windows of the stitcher                                   *)

\* largest time value of an interval of a _split_audio_into_segments call
WinT == 3
\* longest list of requested time intervals
WinReqLen == 2
\* longest list of pre-detected speech intervals
WinSpeechLen == 1
\* longest list of excluded time intervals
WinExclLen == 1

\* lines 2062-2127: the audio windows returned; speech is None when
\* pre_detect_speech is off, and a non-empty list otherwise
split_audio_into_segments(requested, speech, excluded_time_intervals) ==
    LET split == split_audio_by_intervals(AudioLen,
                                          requested_intervals(speech, requested), SR)
    IN  without_excluded(split.audio_segments, split.time_intervals,
                         excluded_time_intervals)

WindowsCall(requested, speech, excluded) ==
    [fn |-> "_split_audio_into_segments", intervals |-> requested, other |-> excluded,
     min_gap |-> 0, audio_len |-> AudioLen, speech |-> speech]

WindowsInit ==
    /\ \E requested \in {PyNone, PyBool}
                            \cup {PyList(l) : l \in SeqsUpTo(Pairs(WinT), WinReqLen)},
          speech \in {PyNone}
                         \cup {PyList(l) : l \in SeqsUpTo(Pairs(WinT), WinSpeechLen) \ {<<>>}},
          excluded \in {PyNone}
                           \cup {PyList(l) : l \in SeqsUpTo(Pairs(WinT), WinExclLen)} :
           call = WindowsCall(requested, speech, excluded)
    /\ ret = NoRet
    /\ StitchAtRest
    /\ QueueAtRest

Call_split_audio_into_segments ==
    /\ call.fn = "_split_audio_into_segments"
    /\ ~ret.done
    /\ ret' = [done |-> TRUE, intervals |-> <<>>,
               audio_segments |-> split_audio_into_segments(call.intervals, call.speech,
                                                            call.other)]
    /\ UNCHANGED <<call, st_vars, t_exists, q_vars>>

WindowsNext == Call_split_audio_into_segments

SpecWindows == WindowsInit /\ [][WindowsNext]_vars

----------------------------------------------------------------------------
(* The segment splitter.  A text is the sequence of its characters; a word *)
(* is [word, start, end]; a segment is [text, start, end, has_words,       *)
(* words], has_words telling whether the key 'words' is present.  Indices  *)
(* count from 0 as in the source; -1 is "not found".                       *)

\* text[a:b]
Sub(text, a, b) == SubSeq(text, a + 1, Min2(b, Len(text)))

\* text.find(ch, from)
find(text, ch, from) ==
    LET hits == {i \in from..(Len(text) - 1) : text[i + 1] = ch}
    IN  IF hits = {} THEN -1 ELSE CHOOSE i \in hits : \A j \in hits : i <= j

\* text.rfind(ch, 0, end)
rfind(text, ch, end) ==
    LET hits == {i \in 0..(Min2(end, Len(text)) - 1) : text[i + 1] = ch}
    IN  IF hits = {} THEN -1 ELSE CHOOSE i \in hits : \A j \in hits : i >= j

\* the character U+2026, the horizontal ellipsis
Ellipsis == "u2026"

\* line 1286: the default punctuation marks
punctuation_marks == {".", "!", "?", Ellipsis}

\* line 1314: current_segment_text.replace('...', ellipsis)
RECURSIVE replace_three_dots(_)
replace_three_dots(text) ==
    IF Len(text) >= 3 /\ SubSeq(text, 1, 3) = <<".", ".", ".">>
    THEN <<Ellipsis>> \o replace_three_dots(SubSeq(text, 4, Len(text)))
    ELSE IF text = <<>> THEN <<>>
    ELSE <<Head(text)>> \o replace_three_dots(Tail(text))

\* line 1317: is there a punctuation mark in the text?
has_punctuation_mark(text) == \E i \in 1..Len(text) : text[i] \in punctuation_marks

\* lines 1320-1322: the index of the first punctuation mark
first_punctuation_mark(text) ==
    CHOOSE i \in 0..(Len(text) - 1) :
        /\ text[i + 1] \in punctuation_marks
        /\ \A j \in 0..(i - 1) : text[j + 1] \notin punctuation_marks

\* lines 1325-1327: the index moves on over the marks that follow
RECURSIVE end_of_marks(_, _)
end_of_marks(text, index) ==
    IF index + 1 < Len(text) /\ text[index + 2] \in punctuation_marks
    THEN end_of_marks(text, index + 1)
    ELSE index

\* lines 1349-1375 and 1212-1235: how many words from the front of the list
\* go to the first part; the loop breaks at the first word that does not fit
RECURSIVE first_part_words_count(_, _, _)
first_part_words_count(words, first_part_words_character_length, fit) ==
    IF words = <<>> THEN 0
    ELSE IF first_part_words_character_length + Len(Head(words).word) > fit THEN 0
    ELSE 1 + first_part_words_count(Tail(words),
                 first_part_words_character_length + Len(Head(words).word), fit)

\* the segment without the space put in front of its text
new_segment_no_space(text, words, segment) ==
    [text |-> text,
     start |-> IF words # <<>> THEN words[1].start ELSE segment.start,
     end |-> IF words # <<>> THEN words[Len(words)].end ELSE segment.end,
     has_words |-> TRUE, words |-> words, space_added |-> FALSE]

\* lines 1385-1393, 1409-1417, 1245-1253, 1270-1278: a resulting segment of
\* a non-empty text; space_added is history: was a space put in front?
new_segment(text, words, segment) ==
    [text |-> IF text[1] # " " THEN <<" ">> \o text ELSE text,
     start |-> IF words # <<>> THEN words[1].start ELSE segment.start,
     end |-> IF words # <<>> THEN words[Len(words)].end ELSE segment.end,
     has_words |-> TRUE, words |-> words, space_added |-> text[1] # " "]

\* what a function returns: the segment it was given, a list of segments,
\* or nothing because it raised
ReturnsSegment(segment) == [kind |-> "segment", val |-> segment]
ReturnsList(segments) == [kind |-> "list", val |-> segments]
Raises == [kind |-> "raise", val |-> <<>>]

\* what is left of the text is dropped
remaining_segment_dropped(current_segment_text, current_segment_words, segment) ==
    SubSeq(<<segment>>, 1, 0)

\* lines 1404-1420 and 1264-1281: what is left of the text becomes a segment
remaining_segment(current_segment_text, current_segment_words, segment) ==
    IF current_segment_text # <<>>
    THEN <<new_segment(current_segment_text, current_segment_words, segment)>>
    ELSE <<>>

\* lines 1317-1402: the loop over the punctuation marks of the text
RECURSIVE punctuation_loop(_, _, _, _)
punctuation_loop(current_segment_text, current_segment_words, resulting_segments, segment) ==
    IF ~has_punctuation_mark(current_segment_text)
    THEN resulting_segments
             \o remaining_segment(current_segment_text, current_segment_words, segment)
    ELSE LET first_punctuation_mark_index ==
                 end_of_marks(current_segment_text,
                              first_punctuation_mark(current_segment_text))
             segment_first_part ==
                 Sub(current_segment_text, 0, first_punctuation_mark_index + 1)
             n == first_part_words_count(current_segment_words, 0,
                                         Len(segment_first_part) + 1)
             first_part_words == SubSeq(current_segment_words, 1, n)
         IN  punctuation_loop(
                 Sub(current_segment_text, first_punctuation_mark_index + 1,
                     Len(current_segment_text)),
                 SubSeq(current_segment_words, n + 1, Len(current_segment_words)),
                 Append(resulting_segments,
                        new_segment(segment_first_part, first_part_words, segment)),
                 segment)

\* lines 1293-1295 and 1121-1124
no_words(segment) == ~segment.has_words \/ segment.words = <<>>

split_segment_on_punctuation_marks(segment) ==
    IF no_words(segment) THEN ReturnsSegment(segment)
    ELSE ReturnsList(punctuation_loop(replace_three_dots(segment.text), segment.words,
                                      <<>>, segment))

\* lines 1177-1187: find_nth, skip left at its default
RECURSIVE find_nth_from(_, _, _, _)
find_nth_from(haystack, needle, n, start) ==
    IF start >= 0 /\ n > 1
    THEN find_nth_from(haystack, needle, n - 1, find(haystack, needle, start + 1))
    ELSE start

find_nth(haystack, needle, n) == find_nth_from(haystack, needle, n, find(haystack, needle, 1))

\* lines 1150-1193: where to split; -1 breaks the loop, -2 stands for the
\* IndexError of current_segment_text[0] on an empty text.  A limit of 0
\* is a limit that was not given.
last_space_index(current_segment_text, segment_word_limit, segment_character_limit) ==
    IF segment_character_limit # 0
    THEN LET before == rfind(current_segment_text, " ", segment_character_limit)
         IN  IF before # -1 THEN before
             ELSE find(current_segment_text, " ", segment_character_limit)
    ELSE IF current_segment_text = <<>> THEN -2
    ELSE find_nth(current_segment_text, " ", segment_word_limit)

\* lines 1146-1262: the loop; the number of words it compares with the
\* limit is the one counted before the loop (line 1139)
RECURSIVE limits_loop(_, _, _, _, _, _)
limits_loop(text, words, resulting_segments, segment, word_limit, character_limit) ==
    IF ~((character_limit # 0 /\ Len(text) > character_limit)
             \/ (word_limit # 0 /\ Len(segment.words) > word_limit))
    THEN ReturnsList(resulting_segments \o remaining_segment(text, words, segment))
    ELSE LET index == last_space_index(text, word_limit, character_limit)
             segment_first_part == Sub(text, 0, index)
             n == first_part_words_count(words, 0, Len(segment_first_part) + 1)
         IN  IF index = -2 THEN Raises
             ELSE IF index = -1
             THEN ReturnsList(resulting_segments \o remaining_segment(text, words, segment))
             ELSE limits_loop(
                      Sub(text, index + 1, Len(text)),
                      SubSeq(words, n + 1, Len(words)),
                      resulting_segments
                          \o (IF segment_first_part # <<>>
                              THEN <<new_segment(segment_first_part, SubSeq(words, 1, n),
                                                 segment)>>
                              ELSE <<>>),
                      segment, word_limit, character_limit)

\* a value that is not a dict: a key of a segment or one of its characters
PyStr(chars) == [is_str |-> TRUE, val |-> chars]
IsDict(x) == "is_str" \notin DOMAIN x

split_segment_by_word_limits(segment, segment_word_limit, segment_character_limit) ==
    IF segment_word_limit = 0 /\ segment_character_limit = 0 THEN ReturnsSegment(segment)
    ELSE IF ~IsDict(segment) THEN ReturnsSegment(segment)
    ELSE IF no_words(segment) THEN ReturnsSegment(segment)
    ELSE limits_loop(segment.text, segment.words, <<>>, segment,
                     segment_word_limit, segment_character_limit)

\* the keys of a segment, in the order of the dict
DictKeys(segment) ==
    << <<"t", "e", "x", "t">>, <<"s", "t", "a", "r", "t">>, <<"e", "n", "d">> >>
        \o (IF segment.has_words THEN << <<"w", "o", "r", "d", "s">> >> ELSE <<>>)

\* lines 1462 and 1504: new_segments.extend(resulting_segment).  A list
\* gives its segments, a dict its keys, a string its characters.
extended_with(resulting_segment) ==
    IF resulting_segment.kind = "list" THEN resulting_segment.val
    ELSE IF IsDict(resulting_segment.val)
         THEN [i \in 1..Len(DictKeys(resulting_segment.val)) |->
                   PyStr(DictKeys(resulting_segment.val)[i])]
    ELSE [i \in 1..Len(resulting_segment.val.val) |->
              PyStr(<<resulting_segment.val.val[i]>>)]

\* lines 1456-1462: every segment is split on the punctuation marks
RECURSIVE split_all_on_punctuation_marks(_)
split_all_on_punctuation_marks(segments) ==
    IF segments = <<>> THEN <<>>
    ELSE extended_with(split_segment_on_punctuation_marks(Head(segments)))
             \o split_all_on_punctuation_marks(Tail(segments))

\* lines 1498-1504: every segment is split by the limits; a call that
\* raises ends the whole loop
RECURSIVE split_all_by_word_limits(_, _, _)
split_all_by_word_limits(segments, segment_word_limit, segment_character_limit) ==
    IF segments = <<>> THEN ReturnsList(<<>>)
    ELSE LET resulting_segment ==
                 split_segment_by_word_limits(Head(segments), segment_word_limit,
                                              segment_character_limit)
             others == split_all_by_word_limits(Tail(segments), segment_word_limit,
                                                segment_character_limit)
         IN  IF resulting_segment.kind = "raise" \/ others.kind = "raise" THEN Raises
             ELSE ReturnsList(extended_with(resulting_segment) \o others.val)

\* lines 1425-1509; a limit of 0 is a limit that was not given
split_segments(segments, split_on_punctuation_marks, max_words, max_chars) ==
    IF segments = <<>> \/ ~segments[1].has_words THEN ReturnsList(segments)
    ELSE LET new_segments == IF split_on_punctuation_marks
                             THEN split_all_on_punctuation_marks(segments)
                             ELSE segments
         IN  IF max_chars # 0 \/ max_words # 0
             THEN split_all_by_word_limits(new_segments, max_words, max_chars)
             ELSE ReturnsList(new_segments)

----------------------------------------------------------------------------
(* Calls of the segment splitter.  The segments are what Whisper returns:  *)
(* each word is a space and some characters (the first word may come       *)
(* without the space), and the text of a segment is its words put          *)
(* together.                                                               *)

\* most characters of a word after its space
MaxWordLen == 2
\* most words of a segment
MaxWords == 2
\* largest max_words_per_segment
MaxWordLimit == 2
\* largest max_chars_per_segment
MaxCharLimit == 5
\* most segments of the list given to split_segments
MaxList == 2

\* what a word is made of, after its space: letters and full stops, or the
\* three full stops that Whisper writes for a pause
WordBody == (SeqsUpTo({"a", "."}, MaxWordLen) \ {<<>>}) \cup {<<".", ".", ".">>}

RECURSIVE Join(_)
Join(texts) == IF texts = <<>> THEN <<>> ELSE Head(texts) \o Join(Tail(texts))

\* the segment of the words ws: word i runs from 2i-1 to 2i, the segment
\* from 0 to 2n+1
SegmentOf(ws) ==
    [text |-> Join(ws), start |-> 0, end |-> 2 * Len(ws) + 1, has_words |-> TRUE,
     words |-> [i \in 1..Len(ws) |-> [word |-> ws[i], start |-> 2 * i - 1, end |-> 2 * i]]]

\* the bodies put into words; the first word with or without its space
WordsOf(bodies, space_first) ==
    [i \in 1..Len(bodies) |->
        IF i = 1 /\ ~space_first THEN bodies[i] ELSE <<" ">> \o bodies[i]]

\* the same words with a space after the last one, for a text that ends in
\* a space
WithSpaceLast(ws) == [ws EXCEPT ![Len(ws)] = @ \o <<" ">>]

\* "Hello world. How are you?" with the words Hello[0,1], ' world.'[1,2],
\* ' How'[2,3], ' are'[3,4], ' you?'[4,5]
ScenarioWords ==
    << <<"H", "e", "l", "l", "o">>, <<" ", "w", "o", "r", "l", "d", ".">>,
       <<" ", "H", "o", "w">>, <<" ", "a", "r", "e">>, <<" ", "y", "o", "u", "?">> >>

ScenarioSegment ==
    [text |-> Join(ScenarioWords), start |-> 0, end |-> 5, has_words |-> TRUE,
     words |-> [i \in 1..5 |-> [word |-> ScenarioWords[i], start |-> i - 1, end |-> i]]]

\* the same segment without its word timings: the key is missing, or the
\* list is empty
WithoutWords(segment, has_key) == [segment EXCEPT !.has_words = has_key, !.words = <<>>]

SplitterCall(fn, segments, punctuation, max_words, max_chars) ==
    [fn |-> fn, segments |-> segments, split_on_punctuation_marks |-> punctuation,
     max_words |-> max_words, max_chars |-> max_chars]

SplitterInit ==
    /\ \/ \E bodies \in SeqsUpTo(WordBody, MaxWords) \ {<<>>}, space_first \in BOOLEAN :
              LET segment == SegmentOf(WordsOf(bodies, space_first))
              IN  \/ call = SplitterCall("split_segment_on_punctuation_marks",
                                         <<segment>>, TRUE, 0, 0)
                  \/ \E max_words \in 0..MaxWordLimit, max_chars \in 0..MaxCharLimit,
                            space_last \in BOOLEAN :
                         /\ max_words # 0 \/ max_chars # 0
                         /\ call = SplitterCall("split_segment_by_word_limits",
                                                <<IF space_last
                                                  THEN SegmentOf(WithSpaceLast(
                                                           WordsOf(bodies, space_first)))
                                                  ELSE segment>>,
                                                FALSE, max_words, max_chars)
       \/ call = SplitterCall("split_segment_on_punctuation_marks",
                              <<ScenarioSegment>>, TRUE, 0, 0)
       \/ \E segments \in SeqsUpTo(
                 {SegmentOf(<< <<" ", "a", ".">> >>),
                  SegmentOf(<< <<" ", "a", ".">>, <<" ", "a">> >>),
                  WithoutWords(SegmentOf(<< <<" ", "a", ".">>, <<" ", "a">> >>), TRUE),
                  WithoutWords(SegmentOf(<< <<" ", "a", ".">>, <<" ", "a">> >>), FALSE)},
                 MaxList) \ {<<>>},
             punctuation \in BOOLEAN,
             max_words \in 0..MaxWordLimit, max_chars \in 0..MaxCharLimit :
              call = SplitterCall("split_segments", segments, punctuation,
                                  max_words, max_chars)
    /\ ret = NoRet
    /\ StitchAtRest
    /\ QueueAtRest

Returned(r) == [done |-> TRUE, intervals |-> <<>>, audio_segments |-> <<>>, value |-> r]

Call_split_segment_on_punctuation_marks ==
    /\ call.fn = "split_segment_on_punctuation_marks"
    /\ ~ret.done
    /\ ret' = Returned(split_segment_on_punctuation_marks(call.segments[1]))
    /\ UNCHANGED <<call, st_vars, t_exists, q_vars>>

Call_split_segment_by_word_limits ==
    /\ call.fn = "split_segment_by_word_limits"
    /\ ~ret.done
    /\ ret' = Returned(split_segment_by_word_limits(call.segments[1], call.max_words,
                                                    call.max_chars))
    /\ UNCHANGED <<call, st_vars, t_exists, q_vars>>

Call_split_segments ==
    /\ call.fn = "split_segments"
    /\ ~ret.done
    /\ ret' = Returned(split_segments(call.segments, call.split_on_punctuation_marks,
                                      call.max_words, call.max_chars))
    /\ UNCHANGED <<call, st_vars, t_exists, q_vars>>

SplitterNext ==
    \/ Call_split_segment_on_punctuation_marks
    \/ Call_split_segment_by_word_limits
    \/ Call_split_segments

SpecSplitter == SplitterInit /\ [][SplitterNext]_vars

----------------------------------------------------------------------------
(* Calls of post_process_whisper_result with the option prevent_short_gaps *)
(* (0: not set).  Each segment of the result carries its place in the      *)
(* list of the backend, n, as history.                                     *)

\* most segments of the result that is post-processed
PpLen == 3
\* largest prevent_short_gaps
PpGap == 2

\* the segments with their places
Numbered(segments) ==
    [i \in 1..Len(segments) |->
        [start |-> segments[i].start, end |-> segments[i].end,
         text_ok |-> segments[i].text_ok, n |-> i]]

PostProcessCall(segments, prevent_short_gaps) ==
    [fn |-> "post_process_whisper_result", segments |-> segments,
     prevent_short_gaps |-> prevent_short_gaps]

PostProcessInit ==
    /\ \E segments \in SeqsUpTo(BackendSegment, PpLen), prevent_short_gaps \in 0..PpGap :
           call = PostProcessCall(Numbered(segments), prevent_short_gaps)
    /\ ret = NoRet
    /\ StitchAtRest
    /\ QueueAtRest

Call_post_process_whisper_result ==
    /\ call.fn = "post_process_whisper_result"
    /\ ~ret.done
    /\ ret' = [done |-> TRUE, intervals |-> <<>>, audio_segments |-> <<>>,
               value |-> post_process_whisper_result(call.segments,
                                                     call.prevent_short_gaps)]
    /\ UNCHANGED <<call, st_vars, t_exists, q_vars>>

PostProcessNext == Call_post_process_whisper_result

SpecPostProcess == PostProcessInit /\ [][PostProcessNext]_vars

----------------------------------------------------------------------------
(* get_all_valid_media_paths_in_dir(recursive=True): the walk is a list of *)
(* directories, a directory the list of its files, a file TRUE when it is  *)
(* a valid media file                                                      *)

\* most directories of a walk
MaxDirs == 2
\* most files of a directory
MaxFiles == 3
\* largest ingest_file_limit
MaxIngestLimit == 2

\* lines 421-429: the files of one directory; the loop breaks once more
\* than ingest_file_limit files are collected
RECURSIVE walk_files(_, _, _)
walk_files(files, all_files, ingest_file_limit) ==
    IF files = <<>> THEN [all_files |-> all_files, reached_limit |-> FALSE]
    ELSE LET appended == Append(all_files, Head(files))
         IN  IF Len(appended) > ingest_file_limit
             THEN [all_files |-> appended, reached_limit |-> TRUE]
             ELSE walk_files(Tail(files), appended, ingest_file_limit)

\* lines 420-432: for root, dirs, files in os.walk(dir_path)
RECURSIVE walk(_, _, _)
walk(dirs, all_files, ingest_file_limit) ==
    IF dirs = <<>> THEN [all_files |-> all_files, reached_limit |-> FALSE]
    ELSE LET w == walk_files(Head(dirs), all_files, ingest_file_limit)
         IN  IF w.reached_limit THEN w
             ELSE walk(Tail(dirs), w.all_files, ingest_file_limit)

\* lines 434-436: the valid media files of the files collected
valid_media_files(all_files) == SelectSeq(all_files, LAMBDA file : file)

\* lines 403-438 with recursive=True, on a directory
get_all_valid_media_paths_in_dir(dirs, ingest_file_limit) ==
    LET w == walk(dirs, <<>>, ingest_file_limit)
    IN  [all_files |-> w.all_files, reached_limit |-> w.reached_limit,
         valid_media_files |-> valid_media_files(w.all_files)]

WalkInit ==
    /\ \E dirs \in SeqsUpTo(SeqsUpTo(BOOLEAN, MaxFiles), MaxDirs),
          ingest_file_limit \in 1..MaxIngestLimit :
           call = [fn |-> "get_all_valid_media_paths_in_dir", dirs |-> dirs,
                   ingest_file_limit |-> ingest_file_limit]
    /\ ret = NoRet
    /\ StitchAtRest
    /\ QueueAtRest

Call_get_all_valid_media_paths_in_dir ==
    /\ call.fn = "get_all_valid_media_paths_in_dir"
    /\ ~ret.done
    /\ ret' = [done |-> TRUE, intervals |-> <<>>, audio_segments |-> <<>>,
               value |-> get_all_valid_media_paths_in_dir(call.dirs,
                                                          call.ingest_file_limit)]
    /\ UNCHANGED <<call, st_vars, t_exists, q_vars>>

WalkNext == Call_get_all_valid_media_paths_in_dir

SpecWalk == WalkInit /\ [][WalkNext]_vars

----------------------------------------------------------------------------
(* One run of speaker_detection, group_questions or index_text, with the   *)
(* queue item it writes to and the observers it notifies.  The run is kept *)
(* in ret.value: the item's status in memory and in the queue file, the    *)
(* observers notified so far, and how the handler ended.                   *)

\* most observers attached to one action
MaxObservers == 2
\* most segments (speaker_detection, group_questions) or batches (index_text)
MaxSteps == 2

Handlers == {"speaker_detection", "group_questions", "index_text"}

\* lines 1724, 2703-2707, 2795: the actions a handler notifies, in order
NotifyActions(fn) ==
    IF fn = "speaker_detection" THEN <<"update_transcription">>
    ELSE IF fn = "group_questions"
         THEN <<"update_transcription", "update_transcription_groups">>
         ELSE <<"update_done_indexing_search_file_path">>

ActionsOf(fn) == {NotifyActions(fn)[k] : k \in 1..Len(NotifyActions(fn))}

HandlerStart ==
    [pc |-> "begin", status |-> "queued", on_disk |-> "queued", processed |-> 0,
     action |-> 1, observer |-> 1, notified |-> {}, outcome |-> "running",
     result |-> "None"]

\* ProcessingQueue.update_queue_item(queue_id, status=..., save_to_file=...):
\* nothing for an id that is None; the queue file is written unless
\* save_to_file is False
update_queue_item(h, queue_id, status, save_to_file) ==
    IF queue_id = 0 THEN h
    ELSE [h EXCEPT !.status = status,
                   !.on_disk = IF save_to_file THEN status ELSE @]

\* the handler returns result
returns(h, result) == [h EXCEPT !.pc = "done", !.outcome = "returned", !.result = result]

\* an exception leaves the handler
raises(h) == [h EXCEPT !.pc = "done", !.outcome = "raised"]

\* ProcessingQueue.cancel_if_canceled returned True: the item is canceled
\* and the handler returns None
canceled(h, queue_id) == returns(update_queue_item(h, queue_id, "canceled", TRUE), "None")

HandlerInit ==
    /\ \E fn \in Handlers, queue_id \in 0..1, has_transcription \in BOOLEAN,
          steps \in 0..MaxSteps, found \in BOOLEAN, time_intervals \in BOOLEAN :
         \E observers \in [ActionsOf(fn) -> SeqsUpTo({"returns", "raises"}, MaxObservers)] :
            call = [fn |-> fn, queue_id |-> queue_id,
                    has_transcription |-> has_transcription, steps |-> steps,
                    found |-> found, time_intervals |-> time_intervals,
                    observers |-> observers]
    /\ ret = [done |-> FALSE, intervals |-> <<>>, audio_segments |-> <<>>,
              value |-> HandlerStart]
    /\ StitchAtRest
    /\ QueueAtRest

HandlerBecomes(h) ==
    /\ ret' = [ret EXCEPT !.value = h, !.done = (h.pc = "done")]
    /\ UNCHANGED <<call, st_vars, t_exists, q_vars>>

HandlerAt(fn, pc) == call.fn = fn /\ ~ret.done /\ ret.value.pc = pc

\* lines 1596-1639: without a transcription the item fails; otherwise the
\* statuses 'preparing segments' and 'loading', neither written to the file
handler_speaker_detection_begin ==
    /\ HandlerAt("speaker_detection", "begin")
    /\ HandlerBecomes(
         IF ~call.has_transcription
         THEN returns(update_queue_item(ret.value, call.queue_id, "failed", TRUE), "None")
         ELSE [update_queue_item(
                  update_queue_item(ret.value, call.queue_id, "preparing segments", FALSE),
                  call.queue_id, "loading", FALSE)
               EXCEPT !.pc = "steps"])

\* lines 1643-1667: detect_speaker_changes yields: the status 'detecting
\* changes' with the progress, not written to the file, then the checkpoint
handler_speaker_detection_step ==
    /\ HandlerAt("speaker_detection", "steps")
    /\ ret.value.processed < call.steps
    /\ LET h == [update_queue_item(ret.value, call.queue_id, "detecting changes", FALSE)
                 EXCEPT !.processed = @ + 1]
       IN  \/ HandlerBecomes(h)
           \/ call.queue_id # 0 /\ HandlerBecomes(canceled(h, call.queue_id))

\* lines 1669-1721: segments[0] raises without segments and time intervals;
\* without speaker segments the handler returns None; otherwise the status
\* done
handler_speaker_detection_finish ==
    /\ HandlerAt("speaker_detection", "steps")
    /\ ret.value.processed = call.steps
    /\ HandlerBecomes(
         IF ~call.time_intervals /\ call.steps = 0 THEN raises(ret.value)
         ELSE IF ~call.found THEN returns(ret.value, "None")
         ELSE [update_queue_item(ret.value, call.queue_id, "done", TRUE)
               EXCEPT !.pc = "notify"])

\* lines 2629-2638: without a transcription the item fails
handler_group_questions_begin ==
    /\ HandlerAt("group_questions", "begin")
    /\ HandlerBecomes(
         IF ~call.has_transcription
         THEN returns(update_queue_item(ret.value, call.queue_id, "failed", TRUE), "None")
         ELSE [ret.value EXCEPT !.pc = "steps"])

\* lines 2571-2579: classify_segments after a segment: the progress alone,
\* not written to the file, then the checkpoint
handler_group_questions_step ==
    /\ HandlerAt("group_questions", "steps")
    /\ ret.value.processed < call.steps
    /\ LET h == [ret.value EXCEPT !.processed = @ + 1]
       IN  \/ HandlerBecomes(h)
           \/ call.queue_id # 0 /\ HandlerBecomes(canceled(h, call.queue_id))

\* lines 2660-2700: the checkpoint after the classification, then the
\* status done
handler_group_questions_finish ==
    /\ HandlerAt("group_questions", "steps")
    /\ ret.value.processed = call.steps
    /\ \/ HandlerBecomes([update_queue_item(ret.value, call.queue_id, "done", TRUE)
                          EXCEPT !.pc = "notify"])
       \/ call.queue_id # 0 /\ HandlerBecomes(canceled(ret.value, call.queue_id))

\* lines 2746-2759: the status 'reading files', then the checkpoint
handler_index_text_begin ==
    /\ HandlerAt("index_text", "begin")
    /\ LET h == update_queue_item(ret.value, call.queue_id, "reading files", TRUE)
       IN  \/ HandlerBecomes([h EXCEPT !.pc = "steps"])
           \/ call.queue_id # 0 /\ HandlerBecomes(canceled(h, call.queue_id))

\* lines 2761-2784: batch_progress_callback: the checkpoint, then the
\* status 'indexing' with the progress
handler_index_text_step ==
    /\ HandlerAt("index_text", "steps")
    /\ ret.value.processed < call.steps
    /\ \/ HandlerBecomes([update_queue_item(ret.value, call.queue_id, "indexing", TRUE)
                          EXCEPT !.processed = @ + 1])
       \/ call.queue_id # 0 /\ HandlerBecomes(canceled(ret.value, call.queue_id))

\* lines 2787-2791: a falsy embed_corpus returns None; otherwise the status
\* done
handler_index_text_finish ==
    /\ HandlerAt("index_text", "steps")
    /\ ret.value.processed = call.steps
    /\ HandlerBecomes(
         IF ~call.found THEN returns(ret.value, "None")
         ELSE [update_queue_item(ret.value, call.queue_id, "done", TRUE)
               EXCEPT !.pc = "notify"])

\* lines 377-388: notify_observers(action), one observer.update() a step:
\* an update that raises leaves notify_observers and the handler
observer_update ==
    /\ ~ret.done
    /\ ret.value.pc = "notify"
    /\ ret.value.action <= Len(NotifyActions(call.fn))
    /\ LET action == NotifyActions(call.fn)[ret.value.action]
           observer == ret.value.observer
       IN  /\ observer <= Len(call.observers[action])
           /\ HandlerBecomes(
                IF call.observers[action][observer] = "raises"
                THEN raises(ret.value)
                ELSE [ret.value EXCEPT !.notified = @ \cup {<<action, observer>>},
                                       !.observer = @ + 1])

\* lines 380-388: notify_observers returns, at once for an action without
\* observers
notify_observers_return ==
    /\ ~ret.done
    /\ ret.value.pc = "notify"
    /\ ret.value.action <= Len(NotifyActions(call.fn))
    /\ ret.value.observer > Len(call.observers[NotifyActions(call.fn)[ret.value.action]])
    /\ HandlerBecomes([ret.value EXCEPT !.action = @ + 1, !.observer = 1])

\* lines 1726, 2709, 2797: the handler returns its result
handler_return ==
    /\ ~ret.done
    /\ ret.value.pc = "notify"
    /\ ret.value.action > Len(NotifyActions(call.fn))
    /\ HandlerBecomes(returns(ret.value, "value"))

HandlerNext ==
    \/ handler_speaker_detection_begin
    \/ handler_speaker_detection_step
    \/ handler_speaker_detection_finish
    \/ handler_group_questions_begin
    \/ handler_group_questions_step
    \/ handler_group_questions_finish
    \/ handler_index_text_begin
    \/ handler_index_text_step
    \/ handler_index_text_finish
    \/ observer_update
    \/ notify_observers_return
    \/ handler_return

SpecHandlers == HandlerInit /\ [][HandlerNext]_vars

----------------------------------------------------------------------------
(* What a call leaves in the caller's arguments.  sorted() copies the list *)
(* but not the pairs in it: a pair of the sorted list is the caller's pair, *)
(* and an assignment to it is seen by the caller.  A pair carries its      *)
(* place in the caller's list as a third entry, 0 for a pair the function  *)
(* built itself.                                                           *)

\* most excluded intervals of a call whose arguments are followed
ArgExclLen == 2

Tagged(l) == [i \in 1..Len(l) |-> <<l[i][1], l[i][2], i>>]

Retagged(l) == [i \in 1..Len(l) |-> IF Len(l[i]) = 3 THEN l[i] ELSE <<l[i][1], l[i][2], 0>>]

\* lines 1025-1040 on the pairs themselves: s is the sorted list, k the
\* place of interval and c the place of current_timestamp
RECURSIVE combine_loop_in_place(_, _, _, _)
combine_loop_in_place(s, k, c, combine_min_time) ==
    IF k > Len(s) THEN s
    ELSE IF merge_test(s[k], s[c], combine_min_time)
         THEN \* current_timestamp[1] = interval[1]
              combine_loop_in_place([s EXCEPT ![c] = <<s[c][1], s[k][2], s[c][3]>>],
                                    k + 1, c, combine_min_time)
         ELSE combine_loop_in_place(s, k + 1, k, combine_min_time)

\* the caller's list l once the pairs of s were assigned to
written_back(l, s) ==
    [i \in 1..Len(l) |->
        IF \E k \in 1..Len(s) : s[k][3] = i
        THEN LET k == CHOOSE k \in 1..Len(s) : s[k][3] = i IN <<s[k][1], s[k][2]>>
        ELSE l[i]]

\* lines 1015-1045: the caller's list l after combine_intervals was called
\* with a list of the pairs given
combine_intervals_leaves(l, given, combine_min_time) ==
    IF given = <<>> THEN l
    ELSE written_back(l, combine_loop_in_place(sorted_by_start(given), 2, 1,
                                               combine_min_time))

\* lines 912-919: the caller's list l after split_audio_by_intervals was
\* called with a list of the pairs given
split_audio_by_intervals_leaves(l, given) == combine_intervals_leaves(l, given, 0)

\* lines 1892-1934: time_intervals and excluded_time_intervals after
\* exclude_segments_by_intervals; line 1897 sorts the excluded list itself
exclude_segments_by_intervals_leaves(time_intervals, excluded_time_intervals) ==
    IF ~(Truthy(excluded_time_intervals) /\ Truthy(time_intervals))
    THEN [intervals |-> IF time_intervals.kind = "list"
                        THEN PyList(split_audio_by_intervals_leaves(
                                        time_intervals.val, Tagged(time_intervals.val)))
                        ELSE time_intervals,
          other |-> excluded_time_intervals]
    ELSE LET excluded == sorted_by_start(excluded_time_intervals.val)
         IN  [intervals |-> PyList(split_audio_by_intervals_leaves(
                                time_intervals.val,
                                Retagged(new_time_intervals(Tagged(time_intervals.val),
                                                            excluded)))),
              other |-> PyList(excluded)]

\* lines 1317-1379: segment['words'] after the loop: the words of every
\* first part were removed from it
RECURSIVE punctuation_loop_leaves(_, _)
punctuation_loop_leaves(current_segment_text, current_segment_words) ==
    IF ~has_punctuation_mark(current_segment_text) THEN current_segment_words
    ELSE LET first_punctuation_mark_index ==
                 end_of_marks(current_segment_text,
                              first_punctuation_mark(current_segment_text))
             n == first_part_words_count(current_segment_words, 0,
                                         first_punctuation_mark_index + 2)
         IN  punctuation_loop_leaves(
                 Sub(current_segment_text, first_punctuation_mark_index + 1,
                     Len(current_segment_text)),
                 SubSeq(current_segment_words, n + 1, Len(current_segment_words)))

\* lines 1293-1304: the segment after split_segment_on_punctuation_marks
split_segment_on_punctuation_marks_leaves(segment) ==
    IF no_words(segment) THEN segment
    ELSE [segment EXCEPT !.words = punctuation_loop_leaves(replace_three_dots(segment.text),
                                                           segment.words)]

\* lines 1146-1239: segment['words'] after the loop; count is the number of
\* words counted before the loop
RECURSIVE limits_loop_leaves(_, _, _, _, _)
limits_loop_leaves(text, words, count, word_limit, character_limit) ==
    IF ~((character_limit # 0 /\ Len(text) > character_limit)
             \/ (word_limit # 0 /\ count > word_limit))
    THEN words
    ELSE LET index == last_space_index(text, word_limit, character_limit)
             n == first_part_words_count(words, 0, Len(Sub(text, 0, index)) + 1)
         IN  IF index < 0 THEN words
             ELSE limits_loop_leaves(Sub(text, index + 1, Len(text)),
                                     SubSeq(words, n + 1, Len(words)),
                                     count, word_limit, character_limit)

\* lines 1111-1134: the segment after split_segment_by_word_limits
split_segment_by_word_limits_leaves(segment, segment_word_limit, segment_character_limit) ==
    IF (segment_word_limit = 0 /\ segment_character_limit = 0) \/ no_words(segment)
    THEN segment
    ELSE [segment EXCEPT !.words = limits_loop_leaves(segment.text, segment.words,
                                                      Len(segment.words), segment_word_limit,
                                                      segment_character_limit)]

ArgumentsInit ==
    /\ \/ \E l \in SeqsUpTo(Pairs(MaxT), MaxLen), g \in 0..MaxGap :
              call = CombineCall(PyList(l), g)
       \/ \E l \in SeqsUpTo(Pairs(OvT), OvLen), a \in SeqsUpTo(Pairs(OvT), OvAddLen) :
              call = OverlapCall(PyList(l), PyList(a))
       \/ \E l \in SeqsUpTo(Pairs(ExT), ExLen), x \in SeqsUpTo(Pairs(ExT), ArgExclLen) :
              call = ExcludeCall(PyList(l), x)
       \/ \E bodies \in SeqsUpTo(WordBody, MaxWords) \ {<<>>}, space_first \in BOOLEAN :
              LET segment == SegmentOf(WordsOf(bodies, space_first))
              IN  \/ call = SplitterCall("split_segment_on_punctuation_marks",
                                         <<segment>>, TRUE, 0, 0)
                  \/ \E max_words \in 0..MaxWordLimit, max_chars \in 0..MaxCharLimit :
                         /\ max_words # 0 \/ max_chars # 0
                         /\ call = SplitterCall("split_segment_by_word_limits",
                                                <<segment>>, FALSE, max_words, max_chars)
    /\ ret = NoRet
    /\ StitchAtRest
    /\ QueueAtRest

\* the call has returned and left these arguments to its caller
Leaves(arguments) ==
    /\ ~ret.done
    /\ ret' = [done |-> TRUE, intervals |-> <<>>, audio_segments |-> <<>>,
               value |-> arguments]
    /\ UNCHANGED <<call, st_vars, t_exists, q_vars>>

Leave_combine_intervals ==
    /\ call.fn = "combine_intervals"
    /\ Leaves([intervals |-> PyList(combine_intervals_leaves(
                                        call.intervals.val, Tagged(call.intervals.val),
                                        call.min_gap)),
               other |-> call.other])

\* lines 1057-1092: the lists are sorted into copies and the intersections
\* are new pairs
Leave_combine_overlapping_intervals ==
    /\ call.fn = "combine_overlapping_intervals"
    /\ Leaves([intervals |-> call.intervals, other |-> call.other])

Leave_exclude_segments_by_intervals ==
    /\ call.fn = "exclude_segments_by_intervals"
    /\ Leaves(exclude_segments_by_intervals_leaves(call.intervals, call.other))

Leave_split_segment_on_punctuation_marks ==
    /\ call.fn = "split_segment_on_punctuation_marks"
    /\ Leaves([segments |-> <<split_segment_on_punctuation_marks_leaves(call.segments[1])>>])

Leave_split_segment_by_word_limits ==
    /\ call.fn = "split_segment_by_word_limits"
    /\ Leaves([segments |-> <<split_segment_by_word_limits_leaves(
                                  call.segments[1], call.max_words, call.max_chars)>>])

ArgumentsNext ==
    \/ Leave_combine_intervals
    \/ Leave_combine_overlapping_intervals
    \/ Leave_exclude_segments_by_intervals
    \/ Leave_split_segment_on_punctuation_marks
    \/ Leave_split_segment_by_word_limits

SpecArguments == ArgumentsInit /\ [][ArgumentsNext]_vars

----------------------------------------------------------------------------
(* add_transcription_to_queue and add_media_to_queue with every task, the  *)
(* speaker detection and the grouping of questions.  The queue is kept in  *)
(* ret.value: the items stored, in the order they were added, the number   *)
(* of ids generated, the number of calls, and what the last call returned  *)
(* (the id 0 stands for False).  An item carries its call and the          *)
(* iteration of the loop over the tasks that added it as history.          *)

\* most calls of add_transcription_to_queue / add_media_to_queue
MaxEnqueues == 2

SourcePaths == {"", "a.mp4", "b.wav"}

TranscriptionTasks == {"None", "transcribe", "translate", "transcribe+translate"}

NoQueue == [items |-> <<>>, generated |-> 0, calls |-> 0, returned |-> <<>>,
            returned_false |-> FALSE]

StoredIds(e) == {e.items[k].id : k \in 1..Len(e.items)}

\* ProcessingQueue.add_to_queue: assigns an id if absent, stores the item
\* with status queued and returns the id; returns a falsy value when the
\* source path cannot be resolved
queue_add(e, queue_id, tasks, inp, iteration) ==
    IF ~inp.resolvable THEN [e |-> e, id |-> 0]
    ELSE LET id == IF queue_id = 0 THEN e.generated + 1 ELSE queue_id
         IN  [e |-> [e EXCEPT
                       !.generated = IF queue_id = 0 THEN @ + 1 ELSE @,
                       !.items = Append(@, [id |-> id, tasks |-> tasks,
                                            source_file_path |-> inp.audio_file_path,
                                            deps |-> {}, status |-> "queued",
                                            call |-> e.calls, iteration |-> iteration])],
              id |-> id]

\* the dependency is dropped: no edge is added
queue_add_dependency_dropped(e, queue_id, dependency_id) == e

\* ProcessingQueue.add_dependency: an edge, unless an id is unknown
queue_add_dependency(e, queue_id, dependency_id) ==
    IF queue_id \notin StoredIds(e) \/ dependency_id \notin StoredIds(e) THEN e
    ELSE [e EXCEPT !.items = [k \in 1..Len(e.items) |->
                                 IF e.items[k].id = queue_id
                                 THEN [e.items[k] EXCEPT !.deps = @ \cup {dependency_id}]
                                 ELSE e.items[k]]]

\* lines 717-733 and 735-752: the item of a task that follows the
\* transcription, and its dependency on next_queue_id
add_following(s, wanted, tasks, next_queue_id, inp, iteration) ==
    IF ~wanted THEN s
    ELSE LET added == queue_add(s.e, 0, tasks, inp, iteration)
         IN  [s EXCEPT !.e = queue_add_dependency(added.e, added.id, next_queue_id),
                       !.all_added_queue_ids = Append(@, added.id)]

\* lines 673-752: one iteration of the loop over transcription_tasks
add_task(s, c_task, inp, iteration) ==
    LET generates == s.queue_id = 0
        next_queue_id == IF generates THEN s.e.generated + 1 ELSE s.queue_id
        e1 == IF generates THEN [s.e EXCEPT !.generated = @ + 1] ELSE s.e
        added == queue_add(e1, next_queue_id, c_task, inp, iteration)
        s1 == [e |-> added.e, queue_id |-> 0,
               all_added_queue_ids |-> Append(s.all_added_queue_ids, added.id)]
        s2 == add_following(s1, inp.transcription_speaker_detection, "speaker_detection",
                            next_queue_id, inp, iteration)
    IN  add_following(s2, inp.transcription_group_questions, "group_questions",
                      next_queue_id, inp, iteration)

\* the task is never split: a single item does the transcription
transcription_tasks_unsplit(transcription_task) == <<"transcribe">>

\* lines 647-666: the tasks of a transcription_task
transcription_tasks(transcription_task) ==
    IF transcription_task = "transcribe+translate" THEN <<"transcribe", "translate">>
    ELSE IF transcription_task = "translate" THEN <<"translate">>
    ELSE <<"transcribe">>

RECURSIVE add_tasks(_, _, _, _)
add_tasks(s, tasks, inp, iteration) ==
    IF tasks = <<>> THEN s
    ELSE add_tasks(add_task(s, Head(tasks), inp, iteration), Tail(tasks), inp,
                   iteration + 1)

\* lines 630-755: the queue after add_transcription_to_queue, and the list
\* it returns
add_transcription_to_queue_returns(e, inp) ==
    IF inp.audio_file_path = ""
    THEN [e EXCEPT !.returned = <<>>, !.returned_false = TRUE]
    ELSE LET s == add_tasks([e |-> e, queue_id |-> inp.queue_id,
                             all_added_queue_ids |-> <<>>],
                            transcription_tasks(inp.transcription_task), inp, 1)
         IN  [s.e EXCEPT !.returned = s.all_added_queue_ids, !.returned_false = FALSE]

\* lines 522-617 for one valid source file: the transcription items, then
\* the item of the video indexing (its iteration is 0)
add_media_to_queue_returns(e, inp) ==
    IF inp.audio_file_path = ""
    THEN [e EXCEPT !.returned = <<>>, !.returned_false = TRUE]
    ELSE LET transcribes == inp.has_audio /\ inp.transcription_settings
             e1 == IF transcribes THEN add_transcription_to_queue_returns(e, inp)
                   ELSE [e EXCEPT !.returned = <<>>, !.returned_false = FALSE]
             indexed == queue_add(e1, IF transcribes THEN 0 ELSE inp.queue_id,
                                  "index_video", inp, 0)
             queued == IF inp.has_video
                       THEN Append(e1.returned, indexed.id) ELSE e1.returned
             e2 == IF inp.has_video THEN indexed.e ELSE e1
         IN  [e2 EXCEPT !.returned = queued, !.returned_false = (queued = <<>>)]

EnqueueInit ==
    /\ call = [fn |-> "none"]
    /\ ret = [done |-> FALSE, intervals |-> <<>>, audio_segments |-> <<>>,
              value |-> NoQueue]
    /\ StitchAtRest
    /\ QueueAtRest

\* a call with its arguments; a queue_id the caller passes is an id it had
\* generated for the call
EnqueueCalled(fn, effect(_, _), has_audio, has_video, transcription_settings) ==
    /\ ret.value.calls < MaxEnqueues
    /\ \E audio_file_path \in SourcePaths, transcription_task \in TranscriptionTasks,
          passes_queue_id \in BOOLEAN, transcription_speaker_detection \in BOOLEAN,
          transcription_group_questions \in BOOLEAN, resolvable \in BOOLEAN :
          \* the arguments that are not read are left at one value
          /\ (audio_file_path = "" \/ ~(has_audio /\ transcription_settings)) =>
                 /\ transcription_task = "None"
                 /\ ~transcription_speaker_detection
                 /\ ~transcription_group_questions
          /\ audio_file_path = "" => (~passes_queue_id /\ ~resolvable)
          /\ LET e == [ret.value EXCEPT !.calls = @ + 1,
                                        !.generated = IF passes_queue_id THEN @ + 1 ELSE @]
                 inp == [fn |-> fn, audio_file_path |-> audio_file_path,
                         transcription_task |-> transcription_task,
                         queue_id |-> IF passes_queue_id THEN e.generated ELSE 0,
                         transcription_speaker_detection |-> transcription_speaker_detection,
                         transcription_group_questions |-> transcription_group_questions,
                         resolvable |-> resolvable, has_audio |-> has_audio,
                         has_video |-> has_video,
                         transcription_settings |-> transcription_settings]
             IN  /\ call' = inp
                 /\ ret' = [ret EXCEPT !.done = TRUE, !.value = effect(e, inp)]
    /\ UNCHANGED <<st_vars, t_exists, q_vars>>

Call_add_transcription_to_queue ==
    EnqueueCalled("add_transcription_to_queue", add_transcription_to_queue_returns,
                  TRUE, FALSE, TRUE)

Call_add_media_to_queue ==
    \E has_audio \in BOOLEAN, has_video \in BOOLEAN, transcription_settings \in BOOLEAN :
        /\ has_video \/ (has_audio /\ transcription_settings)
        /\ EnqueueCalled("add_media_to_queue", add_media_to_queue_returns,
                         has_audio, has_video, transcription_settings)

EnqueueNext == Call_add_transcription_to_queue \/ Call_add_media_to_queue

SpecEnqueue == EnqueueInit /\ [][EnqueueNext]_vars

----------------------------------------------------------------------------
(* classify_segments with groups of labels.  Group g has the two labels    *)
(* [group g, positive TRUE] and [group g, positive FALSE], as 'question'   *)
(* and 'statement'; the classifier's answer for a segment and a group is   *)
(* the label it ranks first and that label's score.  Scores and thresholds *)
(* are counted in steps, segments are numbered 1..n.                       *)

\* most segments given to classify_segments
MaxClassified == 2
\* most groups of labels
MaxGroups == 2
\* highest score and threshold
MaxScore == 2

ClassLabels == [group : 1..MaxGroups, positive : BOOLEAN]

\* a threshold that is a number (kept in val[1]), and one that is a list
Threshold(x) == [is_list |-> FALSE, val |-> <<x>>]
Thresholds(l) == [is_list |-> TRUE, val |-> l]

NoneClassified == [label \in ClassLabels |-> <<>>]

\* lines 2523-2560: one group for one segment.  The list of thresholds is
\* replaced by the one it gives for this group (line 2538), and stays so.
classify_sub_labels(state, classification, group) ==
    IF ~state.current_segment_passed_classification THEN state
    ELSE LET min_confidence == IF state.min_confidence.is_list
                               THEN Threshold(state.min_confidence.val[group])
                               ELSE state.min_confidence
         IN  IF classification.score < min_confidence.val[1]
             THEN [state EXCEPT !.min_confidence = min_confidence,
                                !.current_segment_passed_classification = FALSE]
             ELSE [state EXCEPT
                       !.min_confidence = min_confidence,
                       !.classified_segments[classification.label] =
                           Append(@, state.segment)]

\* lines 2473-2560: the segments in order, and for each the groups in order
RECURSIVE classify_loop(_, _, _, _, _)
classify_loop(state, classifier, segments, groups, group) ==
    IF state.segment > segments THEN state
    ELSE IF group > groups
    THEN classify_loop([state EXCEPT !.segment = @ + 1,
                                     !.current_segment_passed_classification = TRUE],
                       classifier, segments, groups, 1)
    ELSE classify_loop(classify_sub_labels(state, classifier[state.segment][group], group),
                       classifier, segments, groups, group + 1)

\* lines 2594-2613: the segments of the first label of the pass, cut down
\* by each following one; a label without segments ends the loop, and an
\* empty list is filled with the segments of the next label
RECURSIVE multi_label_pass_loop(_, _, _)
multi_label_pass_loop(classified_segments, multi_label_pass, passed) ==
    IF multi_label_pass = <<>> THEN passed
    ELSE LET label == Head(multi_label_pass)
         IN  IF classified_segments[label] = <<>> THEN passed
             ELSE IF passed = <<>>
             THEN multi_label_pass_loop(classified_segments, Tail(multi_label_pass),
                                        classified_segments[label])
             ELSE multi_label_pass_loop(
                      classified_segments, Tail(multi_label_pass),
                      SelectSeq(passed,
                                LAMBDA item :
                                    \E k \in 1..Len(classified_segments[label]) :
                                        classified_segments[label][k] = item))

\* lines 2411-2615.  The result is the exception, None, or the dict with
\* the segments of each label and, with a pass, the '_multi_label_pass_'
\* list.
classify_segments(segments, groups, classifier, min_confidence, multi_label_pass) ==
    IF segments = 0
    THEN [kind |-> "None", classified_segments |-> NoneClassified,
          has_pass |-> FALSE, multi_label_pass |-> <<>>]
    ELSE IF min_confidence.is_list /\ Len(min_confidence.val) # groups
    THEN [kind |-> "raise", classified_segments |-> NoneClassified,
          has_pass |-> FALSE, multi_label_pass |-> <<>>]
    ELSE LET pass == IF groups < Len(multi_label_pass) THEN <<>> ELSE multi_label_pass
             end == classify_loop([segment |-> 1, min_confidence |-> min_confidence,
                                   current_segment_passed_classification |-> TRUE,
                                   classified_segments |-> NoneClassified],
                                  classifier, segments, groups, 1)
         IN  IF end.classified_segments = NoneClassified
             THEN [kind |-> "None", classified_segments |-> NoneClassified,
                   has_pass |-> FALSE, multi_label_pass |-> <<>>]
             ELSE [kind |-> "dict", classified_segments |-> end.classified_segments,
                   has_pass |-> pass # <<>>,
                   multi_label_pass |->
                       multi_label_pass_loop(end.classified_segments, pass, <<>>)]

ClassifyInit ==
    /\ \E segments \in 0..MaxClassified, groups \in 1..MaxGroups :
       \E classifier \in [1..segments ->
                             [1..groups -> [label : ClassLabels, score : 1..MaxScore]]],
          min_confidence \in {Threshold(x) : x \in 1..MaxScore}
                                 \cup {Thresholds(l) :
                                          l \in SeqsUpTo(1..MaxScore, MaxGroups) \ {<<>>}},
          multi_label_pass \in SeqsUpTo({l \in ClassLabels : l.positive}, MaxGroups) :
           /\ \A s \in 1..segments, g \in 1..groups : classifier[s][g].label.group = g
           /\ call = [fn |-> "classify_segments", segments |-> segments,
                      groups |-> groups, classifier |-> classifier,
                      min_confidence |-> min_confidence,
                      multi_label_pass |-> multi_label_pass]
    /\ ret = NoRet
    /\ StitchAtRest
    /\ QueueAtRest

Call_classify_segments ==
    /\ call.fn = "classify_segments"
    /\ ~ret.done
    /\ ret' = Returned(classify_segments(call.segments, call.groups, call.classifier,
                                         call.min_confidence, call.multi_label_pass))
    /\ UNCHANGED <<call, st_vars, t_exists, q_vars>>

ClassifyNext == Call_classify_segments

SpecClassify == ClassifyInit /\ [][ClassifyNext]_vars

----------------------------------------------------------------------------
(* The Resolve polling thread.  resolve_enable is called by up to          *)
(* MaxEnableCalls threads; the call of caller c may start the thread c     *)
(* that runs poll_resolve_data.  Every read and every write of the shared  *)
(* flags is a step of its own.  The run is kept in ret.value.              *)

\* most calls of resolve_enable
MaxEnableCalls == 2
\* line 3507: polling stops for good after more than this many errors
ResolveErrorLimit == 15

Pollers == 1..MaxEnableCalls

\* lines 320-323: the object after construction
ResolveStart(disable_resolve_api) ==
    [polling_resolve |-> FALSE, disable_resolve_api |-> disable_resolve_api,
     resolve_error |-> 0,
     caller |-> [c \in Pollers |-> "idle"],
     thread |-> [t \in Pollers |-> "none"]]

ResolveInit ==
    /\ \E disable_resolve_api \in BOOLEAN, api_module_available \in BOOLEAN :
           /\ call = [fn |-> "resolve_enable",
                      api_module_available |-> api_module_available]
           /\ ret = [done |-> FALSE, intervals |-> <<>>, audio_segments |-> <<>>,
                     value |-> ResolveStart(disable_resolve_api)]
    /\ StitchAtRest
    /\ QueueAtRest

ResolveBecomes(r) ==
    /\ call.fn = "resolve_enable"
    /\ ret' = [ret EXCEPT !.value = r]
    /\ UNCHANGED <<call, st_vars, t_exists, q_vars>>

IsResolveRun == call.fn = "resolve_enable"

\* lines 3104-3107: resolve_enable makes the api object and clears the flag
\* disable_resolve_api
resolve_enable(c) ==
    /\ IsResolveRun
    /\ ret.value.caller[c] = "idle"
    /\ ResolveBecomes([ret.value EXCEPT !.disable_resolve_api = FALSE,
                                        !.caller[c] = "enabled"])

\* line 3109: resolve_enable reads polling_resolve
resolve_enable_check(c) ==
    /\ IsResolveRun
    /\ ret.value.caller[c] = "enabled"
    /\ ResolveBecomes([ret.value EXCEPT
                           !.caller[c] = IF ret.value.polling_resolve THEN "returned"
                                         ELSE "poll_resolve_thread"])

\* lines 3238-3249: poll_resolve_thread reads polling_resolve again and
\* starts the thread
poll_resolve_thread(c) ==
    /\ IsResolveRun
    /\ ret.value.caller[c] = "poll_resolve_thread"
    /\ ResolveBecomes(IF ret.value.polling_resolve
                      THEN [ret.value EXCEPT !.caller[c] = "returned"]
                      ELSE [ret.value EXCEPT !.caller[c] = "returned",
                                             !.thread[c] = "started"])

\* lines 3258-3260: poll_resolve_data reads polling_resolve before its loop
poll_resolve_data_begin(t) ==
    /\ IsResolveRun
    /\ ret.value.thread[t] = "started"
    /\ ResolveBecomes([ret.value EXCEPT
                           !.thread[t] = IF ret.value.polling_resolve THEN "returned"
                                         ELSE "loop"])

\* lines 3263-3272: the top of the loop sets polling_resolve
poll_resolve_data_loop(t) ==
    /\ IsResolveRun
    /\ ret.value.thread[t] = "loop"
    /\ ResolveBecomes([ret.value EXCEPT !.polling_resolve = TRUE,
                                        !.thread[t] = "polling"])

\* lines 3086-3087, called at line 3286
resolve_disable(r) == [r EXCEPT !.disable_resolve_api = TRUE]

\* lines 3275-3557: one pass of the loop.  Polling is suspended, or the api
\* is disabled, or its module is missing, or the data is polled, with or
\* without an exception; after more than ResolveErrorLimit errors the
\* thread gives up.
poll_resolve_data_pass(t) ==
    /\ IsResolveRun
    /\ ret.value.thread[t] = "polling"
    /\ \E suspend_polling \in BOOLEAN, exception \in BOOLEAN :
           LET r == ret.value
               resolve_error == IF exception /\ r.resolve_error <= ResolveErrorLimit
                                THEN r.resolve_error + 1 ELSE r.resolve_error
           IN  ResolveBecomes(
                   IF suspend_polling THEN [r EXCEPT !.thread[t] = "loop"]
                   ELSE IF r.disable_resolve_api
                   THEN resolve_disable([r EXCEPT !.polling_resolve = FALSE,
                                                  !.thread[t] = "returned"])
                   ELSE IF ~call.api_module_available
                   THEN [r EXCEPT !.polling_resolve = FALSE, !.thread[t] = "returned"]
                   ELSE IF resolve_error > ResolveErrorLimit
                   THEN [r EXCEPT !.resolve_error = resolve_error,
                                  !.polling_resolve = FALSE, !.thread[t] = "returned"]
                   ELSE [r EXCEPT !.resolve_error = resolve_error,
                                  !.thread[t] = "loop"])

\* lines 3079-3094: the user disables the api
resolve_disable_called ==
    /\ IsResolveRun
    /\ ~ret.value.disable_resolve_api
    /\ ResolveBecomes(resolve_disable(ret.value))

ResolveNext ==
    \/ \E c \in Pollers : resolve_enable(c)
    \/ \E c \in Pollers : resolve_enable_check(c)
    \/ \E c \in Pollers : poll_resolve_thread(c)
    \/ \E t \in Pollers : poll_resolve_data_begin(t)
    \/ \E t \in Pollers : poll_resolve_data_loop(t)
    \/ \E t \in Pollers : poll_resolve_data_pass(t)
    \/ resolve_disable_called

SpecResolve == ResolveInit /\ [][ResolveNext]_vars

----------------------------------------------------------------------------
(* whisper_transcribe_segments run twice over the same windows of one      *)
(* transcription, the backend returning for each window what it returned   *)
(* the first time.  ret.value keeps the number of runs, the stored         *)
(* segments, and the stored segments as the first run left them.           *)

\* lines 1757-1876: the windows from the i-th on, each one deleting the
\* stored segments of its interval and adding its own
RECURSIVE stitch_windows(_, _, _, _, _, _)
stitch_windows(stored, audio_segments, results, i, next_segment_id, id_count) ==
    IF i > Len(audio_segments) THEN stored
    ELSE LET audio_segment == audio_segments[i]
             kept == delete_segments_between(stored, audio_segment[1], audio_segment[2])
             result_segments == post_process_whisper_result(results[i], 0)
             batch == current_segment_batch(result_segments, audio_segment,
                                            next_segment_id, id_count, i)
         IN  stitch_windows(add_segments(kept, batch), audio_segments, results, i + 1,
                            next_segment_id, id_count + Len(result_segments))

\* lines 1728-1883, for the transcription object
whisper_transcribe_segments(stored, audio_segments, results) ==
    stitch_windows(stored, audio_segments, results, 1, generate_new_segment_id(stored), 0)

RerunInit ==
    /\ \E time_intervals \in SeqsUpTo(Pairs(StT), StLen) :
           LET audio_segments ==
                   split_audio_by_intervals(AudioLen, PyList(time_intervals),
                                            SR).audio_segments
           IN  \E results \in [1..Len(audio_segments) ->
                                  {s \in SeqsUpTo(BackendSegment, MaxSegs) :
                                       Chronological(s)}] :
                   call = [fn |-> "whisper_transcribe_segments",
                           audio_segments |-> audio_segments, results |-> results]
    /\ ret = [done |-> FALSE, intervals |-> <<>>, audio_segments |-> <<>>,
              value |-> [runs |-> 0, segments |-> <<>>, first |-> <<>>]]
    /\ StitchAtRest
    /\ QueueAtRest

Call_whisper_transcribe_segments ==
    /\ call.fn = "whisper_transcribe_segments"
    /\ ret.value.runs < MaxPasses
    /\ LET segments == whisper_transcribe_segments(ret.value.segments,
                                                   call.audio_segments, call.results)
       IN  ret' = [ret EXCEPT !.value = [runs |-> ret.value.runs + 1,
                                         segments |-> segments,
                                         first |-> IF ret.value.runs = 0 THEN segments
                                                   ELSE ret.value.first],
                              !.done = (ret.value.runs + 1 = MaxPasses)]
    /\ UNCHANGED <<call, st_vars, t_exists, q_vars>>

RerunNext == Call_whisper_transcribe_segments

SpecRerun == RerunInit /\ [][RerunNext]_vars

----------------------------------------------------------------------------
(* The progress that whisper_transcribe_segments hands to the backend.     *)
(* A window is well formed (a list of three) or not; the backend reports   *)
(* progress for the item while it works on a window.  ret.value keeps the  *)
(* loop, the progress recorded for the item, and the calls of the backend  *)
(* made so far, each with the window, the previous_progress it was given   *)
(* and the progress of the item at that moment.                            *)

\* most audio windows of one call
MaxWindows == 3
\* largest progress value
MaxProgress == 2

\* the value None of previous_progress
NoProgress == -1

\* lines 757-771: transcription_progress without a progress returns the
\* progress recorded for the item, and nothing without a queue id
transcription_progress(queue_id, recorded) == IF queue_id # 0 THEN recorded ELSE NoProgress

ProgressInit ==
    /\ \E audio_segments \in SeqsUpTo(BOOLEAN, MaxWindows), queue_id \in 0..1 :
           call = [fn |-> "transcribe_with_progress", audio_segments |-> audio_segments,
                   queue_id |-> queue_id]
    /\ ret = [done |-> FALSE, intervals |-> <<>>, audio_segments |-> <<>>,
              value |-> [pc |-> "loop", i |-> 1, previous_progress |-> 0, progress |-> 0,
                         calls |-> <<>>, running |-> 0, outcome |-> "running"]]
    /\ StitchAtRest
    /\ QueueAtRest

ProgressBecomes(p) ==
    /\ call.fn = "transcribe_with_progress"
    /\ ~ret.done
    /\ ret' = [ret EXCEPT !.value = p, !.done = (p.pc = "done")]
    /\ UNCHANGED <<call, st_vars, t_exists, q_vars>>

\* lines 1757-1795: the next window; one that is not a list of three is
\* skipped, any other is sent to the backend with previous_progress
progress_next_window ==
    /\ ret.value.pc = "loop"
    /\ ret.value.i <= Len(call.audio_segments)
    /\ ProgressBecomes(
           IF ~call.audio_segments[ret.value.i]
           THEN [ret.value EXCEPT !.i = @ + 1]
           ELSE [ret.value EXCEPT
                     !.pc = "transcribe",
                     !.running = @ + 1,
                     !.calls = Append(@, [window |-> ret.value.i,
                                          previous_progress |-> ret.value.previous_progress,
                                          recorded |-> ret.value.progress])])

\* lines 766-767, called by the backend while it works on the window: the
\* progress so far, which is never below the previous_progress it was given
progress_reported ==
    /\ ret.value.pc = "transcribe"
    /\ call.queue_id # 0
    /\ \E progress \in 1..MaxProgress :
           /\ progress >= ret.value.calls[Len(ret.value.calls)].previous_progress
           /\ ProgressBecomes([ret.value EXCEPT !.progress = progress])

\* the previous_progress of line 1755 kept for every window
previous_progress_kept(queue_id, recorded, previous) == previous

\* line 1806
previous_progress(queue_id, recorded, previous) == transcription_progress(queue_id, recorded)

\* lines 1786-1876: the backend returns, and the progress recorded for the
\* item is read for the next window
progress_transcribe_returns ==
    /\ ret.value.pc = "transcribe"
    /\ ProgressBecomes([ret.value EXCEPT
                            !.pc = "loop",
                            !.i = @ + 1,
                            !.running = @ - 1,
                            !.previous_progress =
                                previous_progress(call.queue_id, ret.value.progress, @)])

\* the backend raises: the loop ends with the exception
progress_transcribe_raises ==
    /\ ret.value.pc = "transcribe"
    /\ ProgressBecomes([ret.value EXCEPT !.pc = "done", !.running = @ - 1,
                                         !.outcome = "raised"])

\* lines 1878-1883
progress_loop_ends ==
    /\ ret.value.pc = "loop"
    /\ ret.value.i > Len(call.audio_segments)
    /\ ProgressBecomes([ret.value EXCEPT !.pc = "done", !.outcome = "returned"])

ProgressNext ==
    \/ progress_next_window
    \/ progress_reported
    \/ progress_transcribe_returns
    \/ progress_transcribe_raises
    \/ progress_loop_ends

SpecProgress == ProgressInit /\ [][ProgressNext]_vars

----------------------------------------------------------------------------
(* Claims about the queue, the handlers and the stitcher *)

\* C1: when an item A reaches failed or canceled, every queued item B whose
\* dependency list contains A reaches failed, and the handler of B is never
\* invoked: an item that was seen queued, not started, with a failed or
\* canceled dependency is never handed to its handler.
C1_FailedDependencyNeverRuns == \A b \in dep_failed_seen : b \notin invoked

\* C2: a speaker-detection item never starts running before the
\* transcription item it was added for has reached done, whatever the
\* interleaving of the ingesting thread with the dispatch loop.
C2_DependentStartsAfterTranscription ==
    \A b \in invoked :
        queue[b].task = "speaker_detection" => queue[queue[b].for_item].status = "done"

\* C3: when the cancellation of an item is requested before window k of its
\* run over n windows is processed, segments are persisted for windows
\* before k only, and the status of the item is canceled once its handler
\* has returned.
C3_CancelStopsBeforeWindow ==
    \A q \in Items :
        cancel_before[q] > 0 =>
            /\ \A i \in 1..Len(transcription[q]) :
                   transcription[q][i].win < cancel_before[q]
            /\ worker.item # q => queue[q].status = "canceled"

\* C4: once the running handler has written the status done, failed or
\* canceled for its item, no later write of that handler run changes the
\* status of the item.
C4_TerminalStatusIsFinal ==
    [][\A q \in Items :
           (worker.item = q /\ queue[q].status \in Terminal)
               => queue'[q].status = queue[q].status]_vars

\* the segments stored in the transcription file of the stitching passes
Stored == transcription[1]

\* C5 as stated: across repeated stitching passes over overlapping windows
\* no two persisted segments share an id, and the ids are strictly
\* increasing in time order.
C5_IdsUniqueAndIncreasingInTime ==
    \A i, j \in 1..Len(Stored) :
        i # j => /\ Stored[i].id # Stored[j].id
                 /\ Stored[i].start < Stored[j].start => Stored[i].id < Stored[j].id

\* C5 amended: across repeated stitching passes over overlapping windows no
\* two persisted segments share an id, and the ids are strictly increasing in
\* the order in which the segments were stored: a segment gets an id above
\* the id of every segment stored before it.
C5_IdsUniqueAndIncreasingInCreation ==
    /\ \A i, j \in 1..Len(Stored) : i < j => Stored[i].id < Stored[j].id
    /\ st.active =>
           \A i \in 1..Len(Stored) : Stored[i].id < segment_id(st.next_segment_id, st.id_count)

\* after a second pass, a segment stored later lies earlier in time than a
\* segment stored before it
C5_Witness ==
    /\ passes >= 2
    /\ ~st.active
    /\ \E i, j \in 1..Len(Stored) : i < j /\ Stored[i].start > Stored[j].start

----------------------------------------------------------------------------
(* Claims about the interval algebra *)

IsCombineReturn == call.fn = "combine_intervals" /\ ret.done
IsExcludeReturn == call.fn = "exclude_segments_by_intervals" /\ ret.done

\* C6: for every list of intervals with start <= end and every min_gap >= 0,
\* the output of combine_intervals is sorted by start and each interval's
\* start is strictly greater than the previous interval's end.
C6_CombineSortedDisjoint ==
    IsCombineReturn =>
        \A i \in 1..(Len(ret.intervals) - 1) :
            /\ ret.intervals[i][1] <= ret.intervals[i + 1][1]
            /\ ret.intervals[i + 1][1] > ret.intervals[i][2]

\* a combine_intervals call on an unsorted list that returned several intervals
C6_Witness ==
    /\ IsCombineReturn
    /\ call.intervals.kind = "list"
    /\ call.intervals.val # sorted_by_start(call.intervals.val)
    /\ Len(ret.intervals) >= 2

\* the points of the time line an interval list covers: the integer points
\* and the open unit cells between them
Covered(l) ==
    {<<"point", t>> : t \in {u \in 0..MaxT : \E i \in 1..Len(l) : l[i][1] <= u /\ u <= l[i][2]}}
    \cup
    {<<"cell", t>> : t \in {u \in 0..MaxT : \E i \in 1..Len(l) : l[i][1] <= u /\ u + 1 <= l[i][2]}}

\* C7: with min_gap = 0 the output of combine_intervals covers exactly the
\* union of the input ranges (also for nested and overlapping intervals).
C7_CoversUnion ==
    (IsCombineReturn /\ call.intervals.kind = "list" /\ call.min_gap = 0)
        => Covered(ret.intervals) = Covered(call.intervals.val)

\* the places of the sorted list s after which a new output interval starts
Breaks(s, g) == {i \in 1..(Len(s) - 1) : s[i + 1][1] - s[i][2] > g}

\* the sorted list s cut at its breaks, each run of merged intervals giving
\* [start of its first interval, end of its last interval]
MergedRuns(s, g) ==
    LET n == Len(s)
        B == Breaks(s, g)
        Starts == {1} \cup {i + 1 : i \in B}
        StartAt(j) == CHOOSE a \in Starts : Cardinality({b \in Starts : b < a}) = j - 1
        EndOf(a) == CHOOSE e \in B \cup {n} :
                        e >= a /\ \A f \in B \cup {n} : f >= a => e <= f
    IN  [j \in 1..Cardinality(Starts) |-> <<s[StartAt(j)][1], s[EndOf(StartAt(j))][2]>>]

Overlap(a1, a2, b1, b2) == Max2(a1, b1) < Min2(a2, b2)

\* C9: for all non-empty interval lists and all non-empty excluded lists, no
\* time interval returned by exclude_segments_by_intervals overlaps an
\* excluded interval, and no returned audio window covers samples of an
\* excluded range.
C9_NothingExcludedReturned ==
    (IsExcludeReturn /\ Truthy(call.intervals) /\ Truthy(call.other)) =>
        \A x \in 1..Len(call.other.val) :
            /\ \A i \in 1..Len(ret.intervals) :
                   ~Overlap(ret.intervals[i][1], ret.intervals[i][2],
                            call.other.val[x][1], call.other.val[x][2])
            /\ \A w \in 1..Len(ret.audio_segments) :
                   ~Overlap(ret.audio_segments[w][3], ret.audio_segments[w][4],
                            call.other.val[x][1] * SR, call.other.val[x][2] * SR)

StrictlySeparated(l) == \A i \in 1..(Len(l) - 1) : l[i + 1][1] > l[i][2]

----------------------------------------------------------------------------
(* Claims about combine_overlapping_intervals *)

IsOverlapReturn == call.fn = "combine_overlapping_intervals" /\ ret.done

\* the number of places of the list l that hold x
CountIn(l, x) == Cardinality({i \in 1..Len(l) : l[i] = x})

\* the starts of the list l never go down
StartsAscend(l) == \A i \in 1..(Len(l) - 1) : l[i][1] <= l[i + 1][1]

\* l is sorted by start and holds the intervals of m, each as often as m
SortedArrangement(l, m) ==
    /\ Len(l) = Len(m)
    /\ \A i \in 1..Len(m) : CountIn(l, m[i]) = CountIn(m, m[i])
    /\ \A i \in 1..(Len(l) - 1) : l[i][1] <= l[i + 1][1]

\* C14 as stated: with the second list absent combine_overlapping_intervals
\* returns the first list unchanged; with both absent it returns None; with
\* an empty second list it returns an empty list, not the first list.
C14_AbsentIsNotEmpty ==
    IsOverlapReturn =>
        /\ (call.intervals.kind = "list" /\ call.other.kind = "none")
               => ret.value = call.intervals
        /\ (call.intervals.kind = "none" /\ call.other.kind = "none")
               => ret.value = PyNone
        /\ (call.intervals.kind = "list" /\ call.other = PyList(<<>>))
               => ret.value = PyList(<<>>)

\* C14 amended: with the second list absent the first list comes back
\* sorted by start (the same intervals, unchanged when they were sorted);
\* with both absent the result is None; with an empty second list the
\* result is an empty list.
C14_AbsentGivesSortedFirst ==
    IsOverlapReturn =>
        /\ (call.intervals.kind = "list" /\ call.other.kind = "none")
               => /\ ret.value.kind = "list"
                  /\ SortedArrangement(ret.value.val, call.intervals.val)
                  /\ StartsAscend(call.intervals.val) => ret.value = call.intervals
        /\ (call.intervals.kind = "none" /\ call.other.kind = "none")
               => ret.value = PyNone
        /\ (call.intervals.kind = "list" /\ call.other = PyList(<<>>))
               => ret.value = PyList(<<>>)

\* a non-empty first list met an empty second list and nothing came back
C14_Witness ==
    /\ IsOverlapReturn
    /\ call.intervals.kind = "list"
    /\ Len(call.intervals.val) = 2
    /\ call.other = PyList(<<>>)
    /\ ret.value = PyList(<<>>)

\* the closed ranges a and b share a point
SharePoint(a, b) == b[1] <= a[2] /\ b[2] >= a[1]

\* the pairs (place in intervals, place in additional_intervals) whose
\* ranges share a point and whose common part is x
PairsGiving(l, a, x) ==
    {p \in (1..Len(l)) \X (1..Len(a)) :
        /\ SharePoint(l[p[1]], a[p[2]])
        /\ x = <<Max2(l[p[1]][1], a[p[2]][1]), Min2(l[p[1]][2], a[p[2]][2])>>}

\* C15: with both lists present combine_overlapping_intervals returns one
\* interval [max(starts), min(ends)] for every pair of an interval and an
\* additional interval whose ranges overlap, and nothing else; every
\* returned interval has start <= end and lies inside both intervals of a
\* pair.
C15_OneIntervalPerOverlappingPair ==
    (IsOverlapReturn /\ call.intervals.kind = "list" /\ call.other.kind = "list") =>
        /\ ret.value.kind = "list"
        /\ \A x \in Pairs(OvT) :
               CountIn(ret.intervals, x)
                   = Cardinality(PairsGiving(call.intervals.val, call.other.val, x))
        /\ \A i \in 1..Len(ret.intervals) :
               /\ ret.intervals[i][1] <= ret.intervals[i][2]
               /\ \E p \in (1..Len(call.intervals.val)) \X (1..Len(call.other.val)) :
                      LET a == call.intervals.val[p[1]]
                          b == call.other.val[p[2]]
                      IN  /\ a[1] <= ret.intervals[i][1] /\ ret.intervals[i][2] <= a[2]
                          /\ b[1] <= ret.intervals[i][1] /\ ret.intervals[i][2] <= b[2]

\* two intervals met an additional interval and gave two common parts, one
\* of them a single point where two intervals touch
C15_Witness ==
    /\ IsOverlapReturn
    /\ call.intervals.kind = "list" /\ Len(call.intervals.val) = 2
    /\ call.other.kind = "list" /\ Len(call.other.val) = 1
    /\ call.intervals.val[1] # call.intervals.val[2]
    /\ Len(ret.intervals) >= 2
    /\ \E i \in 1..Len(ret.intervals) : ret.intervals[i][1] = ret.intervals[i][2]

----------------------------------------------------------------------------
(* Claims about split_audio_by_intervals *)

IsSplitReturn == call.fn = "split_audio_by_intervals" /\ ret.done

\* C16: split_audio_by_intervals called with empty or absent intervals
\* returns exactly one audio window spanning the whole input: its samples
\* are the full audio, and its [start, end] in seconds is
\* [0, len(audio)/sample_rate], the single time interval returned with it.
C16_WholeAudioWindowInSeconds ==
    (IsSplitReturn /\ (call.intervals = PyNone \/ call.intervals = PyList(<<>>))) =>
        /\ Len(ret.audio_segments) = 1
        /\ ret.audio_segments[1][3] = 0
        /\ ret.audio_segments[1][4] = call.audio_len
        /\ ret.intervals = << <<0, call.audio_len \div call.sr>> >>
        /\ <<ret.audio_segments[1][1], ret.audio_segments[1][2]>> = ret.intervals[1]

----------------------------------------------------------------------------
(* Claims about _split_audio_into_segments *)

IsWindowsReturn == call.fn = "_split_audio_into_segments" /\ ret.done

\* C17: for every combination of requested, pre-detected speech and
\* excluded intervals, the audio windows _split_audio_into_segments hands
\* to the stitcher are sorted by start and pairwise non-overlapping: a
\* later window starts at or after the start and the end of every earlier
\* one.
C17_WindowsSortedDisjoint ==
    IsWindowsReturn =>
        \A i \in 1..Len(ret.audio_segments), j \in 1..Len(ret.audio_segments) :
            i < j => /\ ret.audio_segments[i][1] <= ret.audio_segments[j][1]
                     /\ ret.audio_segments[i][2] <= ret.audio_segments[j][1]

\* requested intervals given out of order were intersected with the
\* detected speech, an excluded interval was cut out, and two windows are
\* handed on
C17_Witness ==
    /\ IsWindowsReturn
    /\ call.intervals.kind = "list" /\ Len(call.intervals.val) = 2
    /\ call.intervals.val[1][1] > call.intervals.val[2][1]
    /\ call.speech.kind = "list"
    /\ Truthy(call.other)
    /\ Len(ret.audio_segments) = 2

----------------------------------------------------------------------------
(* Claims about the clipping of the stitcher and the end of                *)
(* whisper_transcribe                                                      *)

\* the segments the current window adds to the transcription file in this
\* step: those that carry an id of the window's batch
AddedByWindow ==
    {i \in 1..Len(transcription'[st.tk]) :
        transcription'[st.tk][i].id >= segment_id(st.next_segment_id, st.id_count)}

\* C18: after whisper_transcribe_segments processes a window [ws, we],
\* every segment it stores for that window has ws <= start <= end <= we,
\* whatever times the backend reported, times beyond the window's duration
\* included.
C18_StoredInsideWindow ==
    [][(StitchLooping /\ st'.i = st.i + 1) =>
           \A i \in AddedByWindow :
               LET s == transcription'[st.tk][i]
                   audio_segment == st.windows[st.i]
               IN  /\ audio_segment[1] <= s.start
                   /\ s.start <= s.end
                   /\ s.end <= audio_segment[2]]_vars

\* C19: if the backend returns the status failed or canceled for any window
\* of a transcription (not only the last one), whisper_transcribe ends the
\* item failed or canceled and never marks it done.
C19_AnyWindowStatusEndsItem ==
    [][\A q \in Items :
           (worker.item = q /\ worker.reported # {})
               => /\ queue'[q].status # "done"
                  /\ worker'.item # q => queue'[q].status \in {"failed", "canceled"}]_vars

\* C20: when the backend raises during stitching, whisper_transcribe leaves
\* the item failed with the descriptive message that holds the exception
\* text as its fail_error, and that is still the fail_error when the
\* handler returns.
C20_DescriptiveErrorKept ==
    [][\A q \in Items :
           (worker.item = q /\ worker.pc = "stitch" /\ StitchLooping
                /\ worker'.item # q /\ queue'[q].status = "failed")
               => queue'[q].fail_error = "error transcribing"]_vars

----------------------------------------------------------------------------
(* Claims about the segment splitter *)

IsPunctuationReturn == call.fn = "split_segment_on_punctuation_marks" /\ ret.done
IsLimitsReturn == call.fn = "split_segment_by_word_limits" /\ ret.done
IsSplitSegmentsReturn == call.fn = "split_segments" /\ ret.done

\* the texts of the segments, one after the other
RECURSIVE Texts(_)
Texts(segments) ==
    IF segments = <<>> THEN <<>> ELSE Head(segments).text \o Texts(Tail(segments))

\* the texts of the segments one after the other, each without the space
\* that was put in front of it
RECURSIVE TextsWithoutAddedSpace(_)
TextsWithoutAddedSpace(segments) ==
    IF segments = <<>> THEN <<>>
    ELSE (IF Head(segments).space_added THEN Tail(Head(segments).text)
                                        ELSE Head(segments).text)
             \o TextsWithoutAddedSpace(Tail(segments))

MarksOnlyAtEnd(t) ==
    \A i \in 1..(Len(t) - 1) : t[i] \in punctuation_marks => t[i + 1] \in punctuation_marks

\* the text of the segment without the space put in front of it
WithoutAddedSpace(segment) ==
    IF segment.space_added THEN Tail(segment.text) ELSE segment.text

\* the punctuation split keeps every terminator, and every run of
\* terminators, at the end of the left part
TerminatorsStayLeft(segments) ==
    /\ \A k \in 1..Len(segments) : MarksOnlyAtEnd(segments[k].text)
    /\ \A k \in 1..(Len(segments) - 1) :
           /\ segments[k].text[Len(segments[k].text)] \in punctuation_marks
           /\ WithoutAddedSpace(segments[k + 1])[1] \notin punctuation_marks

\* start and end come from the first and the last retained word, and from
\* the parent segment only when no word is retained
TimesFromWords(segments, parent) ==
    \A k \in 1..Len(segments) :
        LET s == segments[k]
        IN  IF s.words # <<>>
            THEN s.start = s.words[1].start /\ s.end = s.words[Len(s.words)].end
            ELSE s.start = parent.start /\ s.end = parent.end

HelloWorld == <<"H", "e", "l", "l", "o", " ", "w", "o", "r", "l", "d", ".">>
HowAreYou == <<" ", "H", "o", "w", " ", "a", "r", "e", " ", "y", "o", "u", "?">>

\* the text and the times of the returned segments
TextsAndTimes(segments) ==
    [k \in 1..Len(segments) |-> <<segments[k].text, segments[k].start, segments[k].end>>]

\* C12 as stated: the punctuation split keeps each terminator (and a run of
\* consecutive terminators) at the end of the left part; every resulting
\* segment runs from the start of its first retained word to the end of its
\* last retained word (the parent's bounds only when it retains no words);
\* "Hello world. How are you?" with the words Hello[0,1], ' world.'[1,2],
\* ' How'[2,3], ' are'[3,4], ' you?'[4,5] gives exactly {"Hello world.",0,2}
\* and {" How are you?",2,5}.
C12_PunctuationSplit ==
    (IsPunctuationReturn /\ ret.value.kind = "list") =>
        /\ TerminatorsStayLeft(ret.value.val)
        /\ TimesFromWords(ret.value.val, call.segments[1])
        /\ call.segments[1] = ScenarioSegment =>
               TextsAndTimes(ret.value.val)
                   = << <<HelloWorld, 0, 2>>, <<HowAreYou, 2, 5>> >>

\* C12 amended: as stated, except that the first segment of the scenario
\* is {" Hello world.",0,2}: its text carries the space that the split puts
\* in front of a part that does not start with one.
C12_PunctuationSplitWithSpace ==
    (IsPunctuationReturn /\ ret.value.kind = "list") =>
        /\ TerminatorsStayLeft(ret.value.val)
        /\ TimesFromWords(ret.value.val, call.segments[1])
        /\ call.segments[1] = ScenarioSegment =>
               TextsAndTimes(ret.value.val)
                   = << <<(<<" ">> \o HelloWorld), 0, 2>>, <<HowAreYou, 2, 5>> >>

\* the scenario was split into two segments
C12_Witness ==
    /\ IsPunctuationReturn
    /\ call.segments[1] = ScenarioSegment
    /\ ret.value.kind = "list"
    /\ Len(ret.value.val) = 2

\* C13: when a segment carries no word-level timings, both splitting
\* strategies leave it unchanged: split_segments applied to a list in which
\* a segment lacks 'words', or has an empty words list, returns a list that
\* still holds that segment, unmodified and once for each time it was given,
\* at or after its original position.
C13_WordlessSegmentKept ==
    IsSplitSegmentsReturn =>
        \A i \in 1..Len(call.segments) :
            no_words(call.segments[i]) =>
                /\ ret.value.kind = "list"
                /\ \E j \in i..Len(ret.value.val) : ret.value.val[j] = call.segments[i]
                /\ Cardinality({j \in 1..Len(ret.value.val) :
                                    ret.value.val[j] = call.segments[i]})
                       = Cardinality({k \in 1..Len(call.segments) :
                                          call.segments[k] = call.segments[i]})

----------------------------------------------------------------------------
(* Claims about post_process_whisper_result *)

IsPostProcessReturn == call.fn = "post_process_whisper_result" /\ ret.done

\* the segment of the call that the kept segment s was
GivenAs(s) == call.segments[s.n]

\* C22: with prevent_short_gaps set to a threshold t, for every pair of
\* consecutive kept segments with next.start - previous.end < t the
\* previous segment's end is set to next.start, the next segment's start is
\* never modified, and pairs whose gap is >= t are left untouched; with the
\* option unset no start or end is modified.
C22_ShortGapsFilled ==
    IsPostProcessReturn =>
        LET kept == ret.value
            t == call.prevent_short_gaps
        IN  /\ \A k \in 1..Len(kept) :
                   /\ kept[k].start = GivenAs(kept[k]).start
                   /\ kept[k].text_ok
            /\ \A k \in 1..(Len(kept) - 1) :
                   IF t > 0 /\ kept[k + 1].start - GivenAs(kept[k]).end < t
                   THEN kept[k].end = kept[k + 1].start
                   ELSE kept[k].end = GivenAs(kept[k]).end
            /\ Len(kept) > 0 => kept[Len(kept)].end = GivenAs(kept[Len(kept)]).end

\* three segments are kept: the gap after the first one is below the
\* threshold and is filled, the gap after the second one is not
C22_Witness ==
    /\ IsPostProcessReturn
    /\ call.prevent_short_gaps > 0
    /\ Len(ret.value) = 3
    /\ ret.value[1].end # GivenAs(ret.value[1]).end
    /\ ret.value[1].end = ret.value[2].start
    /\ ret.value[3].start - ret.value[2].end >= call.prevent_short_gaps
    /\ ret.value[2].end = GivenAs(ret.value[2]).end

----------------------------------------------------------------------------
(* Claims about the ingest of media *)

IsWalkReturn == call.fn = "get_all_valid_media_paths_in_dir" /\ ret.done

\* the number of files of the walk
RECURSIVE FilesIn(_)
FilesIn(dirs) == IF dirs = <<>> THEN 0 ELSE Len(Head(dirs)) + FilesIn(Tail(dirs))

\* C24: the recursive directory expansion is bounded by ingest_file_limit:
\* get_all_valid_media_paths_in_dir(recursive=True) never collects more
\* than ingest_file_limit files from the walk, and when the directory holds
\* more it stops the walk and returns.
C24_WalkBoundedByLimit ==
    IsWalkReturn =>
        /\ Len(ret.value.all_files) <= call.ingest_file_limit
        /\ Len(ret.value.valid_media_files) <= call.ingest_file_limit
        /\ FilesIn(call.dirs) > call.ingest_file_limit => ret.value.reached_limit

----------------------------------------------------------------------------
(* Claims about one run of a handler *)

IsHandlerRun == call.fn \in Handlers

\* C21: an observer whose update raises during notify_observers does not
\* abort the operation that triggered the notification: once the handler
\* has written its final status and started to notify, every observer of
\* its actions is notified, the handler returns its normal result, and the
\* status it wrote stays.
C21_FailingObserverDoesNotAbort ==
    (IsHandlerRun /\ ret.done /\ call.queue_id # 0 /\ ret.value.on_disk = "done") =>
        /\ \A action \in ActionsOf(call.fn) :
              \A observer \in 1..Len(call.observers[action]) :
                 call.observers[action][observer] = "returns" =>
                    <<action, observer>> \in ret.value.notified
        /\ ret.value.outcome = "returned"
        /\ ret.value.result = "value"
        /\ ret.value.status = "done"

\* C28: every update that changes an item's status is persisted: the
\* status in the queue file is the status of the item after every call a
\* handler makes; only updates of the progress alone leave the file as it
\* is.
C28_StatusWritesPersisted ==
    (IsHandlerRun /\ call.queue_id # 0) => ret.value.on_disk = ret.value.status

\* C29: every run of a task handler ends in a terminal state: when the
\* handler returns for an item with a queue id, the item's status is done,
\* failed or canceled on every return path.
C29_ReturnsInTerminalStatus ==
    (IsHandlerRun /\ call.queue_id # 0 /\ ret.done /\ ret.value.outcome = "returned") =>
        ret.value.status \in Terminal

\* C30: in the stitching loop a cancellation checkpoint is reached between
\* any two consecutive inference calls: once the cancellation of the running
\* item is requested, no window after the first is sent to the backend.
C30_CheckpointBetweenWindows ==
    [][~(/\ worker.pc = "stitch"
         /\ StitchLooping
         /\ st.i >= 2
         /\ worker.item \in cancel_requested
         /\ st' # st)]_vars

----------------------------------------------------------------------------
(* Claim about the arguments of the interval algebra and the splitter *)

\* C26: the Interval Algebra and Segment Splitter functions are pure:
\* combine_intervals, combine_overlapping_intervals,
\* exclude_segments_by_intervals, split_segment_on_punctuation_marks and
\* split_segment_by_word_limits leave their arguments as they were given:
\* the interval lists and their pairs, the order of the excluded list, the
\* text and the words of the segment.
C26_ArgumentsUnchanged ==
    ret.done =>
        /\ call.fn \in {"combine_intervals", "combine_overlapping_intervals",
                        "exclude_segments_by_intervals"} =>
              /\ ret.value.intervals = call.intervals
              /\ ret.value.other = call.other
        /\ call.fn \in {"split_segment_on_punctuation_marks",
                        "split_segment_by_word_limits"} =>
              ret.value.segments = call.segments

----------------------------------------------------------------------------
(* Claims about the items that are added to the queue *)

IsEnqueue == call.fn \in {"add_transcription_to_queue", "add_media_to_queue"}

QueueItems == ret.value.items

\* the items the last call stored for a task
StoredByCall(task) ==
    {k \in 1..Len(QueueItems) : QueueItems[k].call = ret.value.calls /\ QueueItems[k].tasks = task}

\* the last call asked the queue for 'transcribe+translate' of a source the
\* queue accepts
SplitCalled ==
    /\ IsEnqueue
    /\ call.has_audio /\ call.transcription_settings
    /\ call.transcription_task = "transcribe+translate"
    /\ call.audio_file_path # ""
    /\ call.resolvable

\* C23: add_transcription_to_queue with task 'transcribe+translate'
\* creates exactly two transcription items for the source, one whose tasks
\* are ['transcribe'] and one whose tasks are ['translate'], with distinct
\* ids and the same source_file_path, neither depending on the other; a
\* queue_id of the caller is given to the first of them only.
C23_SplitIntoTwoItems ==
    SplitCalled =>
        \E a \in StoredByCall("transcribe"), b \in StoredByCall("translate") :
            /\ StoredByCall("transcribe") = {a}
            /\ StoredByCall("translate") = {b}
            /\ a < b
            /\ QueueItems[a].id # QueueItems[b].id
            /\ QueueItems[a].source_file_path = call.audio_file_path
            /\ QueueItems[b].source_file_path = call.audio_file_path
            /\ QueueItems[a].id \notin QueueItems[b].deps
            /\ QueueItems[b].id \notin QueueItems[a].deps
            /\ call.queue_id # 0 =>
                  /\ QueueItems[a].id = call.queue_id
                  /\ \A k \in 1..Len(QueueItems) : k # a => QueueItems[k].id # call.queue_id

C23_Witness ==
    /\ SplitCalled
    /\ call.queue_id # 0
    /\ call.transcription_speaker_detection
    /\ ret.value.calls = 2
    /\ Len(QueueItems) > 4

\* C25: the ingest dispatcher never silently drops a job: every element of
\* the list returned by add_media_to_queue / add_transcription_to_queue is
\* the id of an item stored in the queue with status queued; for an item
\* the queue rejects no entry is returned.
C25_ReturnedIdsAreStored ==
    IsEnqueue =>
        \A n \in 1..Len(ret.value.returned) :
            \E k \in 1..Len(QueueItems) :
                /\ QueueItems[k].id = ret.value.returned[n]
                /\ QueueItems[k].status = "queued"

Follows(item) == item.tasks \in {"speaker_detection", "group_questions"}
Transcribes(item) == item.tasks \in {"transcribe", "translate"}

\* the items an item depends on, directly or through other items
RECURSIVE DependsOn(_, _)
DependsOn(ids, n) ==
    IF n = 0 THEN ids
    ELSE DependsOn(ids \cup UNION {QueueItems[k].deps : k \in {j \in 1..Len(QueueItems) :
                                                             QueueItems[j].id \in ids}},
                   n - 1)

\* C27: after any sequence of add_media_to_queue /
\* add_transcription_to_queue calls the dependencies form a DAG in which
\* every speaker_detection and every group_questions item depends on
\* exactly the transcribe/translate item added in the same iteration of the
\* same call, and no transcribe/translate item depends on anything.
C27_DependenciesOfFollowingItems ==
    IsEnqueue =>
        \A k \in 1..Len(QueueItems) :
            /\ QueueItems[k].id \notin DependsOn(QueueItems[k].deps, Len(QueueItems))
            /\ Transcribes(QueueItems[k]) => QueueItems[k].deps = {}
            /\ Follows(QueueItems[k]) =>
                  \E j \in 1..Len(QueueItems) :
                      /\ Transcribes(QueueItems[j])
                      /\ QueueItems[j].call = QueueItems[k].call
                      /\ QueueItems[j].iteration = QueueItems[k].iteration
                      /\ QueueItems[k].deps = {QueueItems[j].id}
                      /\ \A i \in 1..Len(QueueItems) :
                             (Transcribes(QueueItems[i]) /\ QueueItems[i].call = QueueItems[k].call
                                 /\ QueueItems[i].iteration = QueueItems[k].iteration) => i = j

C27_Witness ==
    /\ IsEnqueue
    /\ ret.value.calls = 2
    /\ \E k \in 1..Len(QueueItems) : QueueItems[k].tasks = "speaker_detection" /\ QueueItems[k].iteration = 2
    /\ \E k \in 1..Len(QueueItems) : QueueItems[k].tasks = "group_questions" /\ QueueItems[k].call = 1
    /\ \E k \in 1..Len(QueueItems) : QueueItems[k].tasks = "index_video"

----------------------------------------------------------------------------
(* Claim about the segments post_process_whisper_result keeps *)

\* the segments of the call with a non-empty text, in their order
ValidGiven == SelectSeq(call.segments, LAMBDA s : s.text_ok)

\* C38: post_process_whisper_result drops only invalid segments: its output
\* contains, in their original order, every input segment that is a dict
\* with a non-empty string text, and no others.
C38_OnlyInvalidDropped ==
    IsPostProcessReturn =>
        /\ Len(ret.value) = Len(ValidGiven)
        /\ \A k \in 1..Len(ret.value) : ret.value[k].n = ValidGiven[k].n

----------------------------------------------------------------------------
(* Claims about the limits of split_segment_by_word_limits *)

\* at every step of the loop of lines 1146-1262 the text has a space before
\* the position character_limit
RECURSIVE SpaceBeforeLimitAtEveryStep(_, _, _, _)
SpaceBeforeLimitAtEveryStep(text, count, word_limit, character_limit) ==
    IF ~(Len(text) > character_limit \/ (word_limit # 0 /\ count > word_limit))
    THEN TRUE
    ELSE LET index == rfind(text, " ", character_limit)
         IN  /\ index # -1
             /\ SpaceBeforeLimitAtEveryStep(Sub(text, index + 1, Len(text)), count,
                                            word_limit, character_limit)

\* C39: when split_segment_by_word_limits is given a character limit L and
\* the text has a space before position L at every step, the text of every
\* resulting segment, with the leading space the function puts in front and
\* the final remainder included, is at most L characters long.
C39_TextsWithinCharacterLimit ==
    (/\ IsLimitsReturn
     /\ call.max_chars # 0
     /\ SpaceBeforeLimitAtEveryStep(call.segments[1].text, Len(call.segments[1].words),
                                    call.max_words, call.max_chars)
     /\ ret.value.kind = "list") =>
        \A k \in 1..Len(ret.value.val) : Len(ret.value.val[k].text) <= call.max_chars

\* every index at which the loop of lines 1146-1262 divides the text is
\* the index of a space of the current text, and it is the index found with
\* the character limit whenever that limit is given
RECURSIVE SplitsAtSpaces(_, _, _, _)
SplitsAtSpaces(text, count, word_limit, character_limit) ==
    IF ~((character_limit # 0 /\ Len(text) > character_limit)
             \/ (word_limit # 0 /\ count > word_limit))
    THEN TRUE
    ELSE LET index == last_space_index(text, word_limit, character_limit)
         IN  IF index < 0 THEN TRUE
             ELSE /\ text[index + 1] = " "
                  /\ character_limit # 0 =>
                         index = last_space_index(text, 0, character_limit)
                  /\ SplitsAtSpaces(Sub(text, index + 1, Len(text)), count,
                                    word_limit, character_limit)

\* C35: the limit split never cuts a word: every boundary at which
\* split_segment_by_word_limits divides the text is the position of a space
\* of the current text, the character limit is the criterion whenever both
\* limits are given, a text without any space is returned as one segment,
\* and the loop ends without raising for every segment that has words, a
\* text that ends in a space included.
C35_SplitsAtSpacesWithoutRaising ==
    IsLimitsReturn =>
        LET segment == call.segments[1]
        IN  /\ ret.value.kind # "raise"
            /\ SplitsAtSpaces(segment.text, Len(segment.words),
                              call.max_words, call.max_chars)
            /\ find(segment.text, " ", 0) = -1 =>
                   /\ ret.value.kind = "list"
                   /\ Len(ret.value.val) = 1
                   /\ WithoutAddedSpace(ret.value.val[1]) = segment.text

\* a text without the one space in front of it
WithoutLeadingSpace(t) == IF t # <<>> /\ t[1] = " " THEN Tail(t) ELSE t

\* the word strings of a segment put together
WordsText(segment) == Join([i \in 1..Len(segment.words) |-> segment.words[i].word])

\* the words of the segments, one list after the other
RECURSIVE AllWords(_)
AllWords(segments) ==
    IF segments = <<>> THEN <<>> ELSE Head(segments).words \o AllWords(Tail(segments))

\* C34: the words stay aligned with the text through a split: for every
\* segment whose words put together are its text, every segment returned by
\* split_segment_on_punctuation_marks or split_segment_by_word_limits has
\* words that put together are its text up to the one leading space, every
\* word of the input is in exactly one returned segment, and the words keep
\* their order.
C34_WordsAlignedWithText ==
    ((IsPunctuationReturn \/ IsLimitsReturn) /\ ret.value.kind = "list") =>
        /\ \A k \in 1..Len(ret.value.val) :
               WithoutLeadingSpace(WordsText(ret.value.val[k]))
                   = WithoutLeadingSpace(ret.value.val[k].text)
        /\ AllWords(ret.value.val) = call.segments[1].words

----------------------------------------------------------------------------
(* Claims about classify_segments *)

IsClassifyReturn == call.fn = "classify_segments" /\ ret.done

\* the segments of the list l
SegmentsIn(l) == {l[k] : k \in 1..Len(l)}

\* C36: in a classification with groups of labels and a list of
\* thresholds, classify_segments compares the top score of group i with
\* min_confidence[i] for every segment and every group, whatever was
\* classified before: a segment is under a label exactly when that label is
\* the top one of its group and the scores of this group and of the groups
\* before it reach their own thresholds.
C36_ThresholdOfEachGroup ==
    (IsClassifyReturn /\ call.min_confidence.is_list /\ ret.value.kind # "raise") =>
        \A label \in ClassLabels, segment \in 1..call.segments :
            segment \in SegmentsIn(ret.value.classified_segments[label])
                <=> /\ label.group <= call.groups
                    /\ call.classifier[segment][label.group].label = label
                    /\ \A group \in 1..label.group :
                           call.classifier[segment][group].score
                               >= call.min_confidence.val[group]

\* C37: a segment is in the '_multi_label_pass_' list of classify_segments
\* only if it is under every label of multi_label_pass: the list is the
\* intersection of the lists of those labels, and it is empty when the
\* intersection of a prefix of the labels is empty or a label has no segment.
C37_PassIsIntersection ==
    (IsClassifyReturn /\ ret.value.kind = "dict" /\ ret.value.has_pass) =>
        SegmentsIn(ret.value.multi_label_pass)
            = {segment \in 1..call.segments :
                   \A k \in 1..Len(call.multi_label_pass) :
                       segment \in SegmentsIn(
                           ret.value.classified_segments[call.multi_label_pass[k]])}

----------------------------------------------------------------------------
(* Claim about the Resolve polling thread *)

\* the threads that are in the loop of poll_resolve_data
PollingLoops == {t \in Pollers : ret.value.thread[t] \in {"loop", "polling"}}

\* C40: at most one Resolve polling loop is active at any time: under every
\* interleaving of concurrent resolve_enable and poll_resolve_thread calls
\* a second thread never enters the loop of poll_resolve_data while another
\* is in it, and polling_resolve is false whenever no loop is running.
C40_AtMostOnePollingLoop ==
    IsResolveRun =>
        /\ Cardinality(PollingLoops) <= 1
        /\ PollingLoops = {} => ~ret.value.polling_resolve

----------------------------------------------------------------------------
(* Claim about running the stitcher again *)

\* how many of the segments have the times and the window of the segment x
\* (the window stands for the text: the backend returns the same texts)
TimesAndText(x) == <<x.start, x.end, x.win>>
CountOf(segments, x) ==
    Cardinality({k \in 1..Len(segments) : TimesAndText(segments[k]) = TimesAndText(x)})

\* C33: stitching is idempotent under a re-run: a second run of
\* whisper_transcribe_segments over the same windows of the same
\* transcription with the same backend outputs leaves the stored segments
\* with the same multiset of (start, end, text) as the first run left, no
\* segment twice and none missing.
C33_RerunLeavesSameSegments ==
    (call.fn = "whisper_transcribe_segments" /\ ret.value.runs >= 2) =>
        /\ Len(ret.value.segments) = Len(ret.value.first)
        /\ \A k \in 1..Len(ret.value.first) :
               CountOf(ret.value.segments, ret.value.first[k])
                   = CountOf(ret.value.first, ret.value.first[k])

----------------------------------------------------------------------------
(* Claims about the running item of the queue and its windows *)

\* C31: once a cancellation checkpoint has returned true for an item, the
\* handler unwinds without any other terminal write: it never sets the
\* status of the item to done or failed, and the status it leaves is
\* canceled.
C31_CanceledStaysCanceled ==
    [][(worker.item # 0 /\ queue[worker.item].status = "canceled") =>
           /\ queue'[worker.item].status \notin {"done", "failed"}
           /\ worker'.item # worker.item => queue'[worker.item].status = "canceled"]_vars

IsProgressRun == call.fn = "transcribe_with_progress"

\* the well-formed windows among the first n, in the order of the list
WellFormedUpTo(n) ==
    SelectSeq([k \in 1..n |-> k], LAMBDA k : call.audio_segments[k])

\* C32: within one item, whisper_transcribe_segments calls the backend
\* exactly once for each well-formed window, in the order of the list and
\* never two at a time, and the previous_progress given for a window after
\* the first is the progress of the item as recorded after the window before
\* it, so that the progress given to the backend never goes back.
C32_OncePerWindowWithProgressSoFar ==
    (IsProgressRun /\ call.queue_id # 0) =>
        LET calls == ret.value.calls
            windows == [k \in 1..Len(calls) |-> calls[k].window]
        IN  /\ ret.value.running <= 1
            /\ windows = WellFormedUpTo(IF ret.value.pc = "loop"
                                            \/ ret.value.outcome = "returned"
                                        THEN ret.value.i - 1 ELSE ret.value.i)
            /\ ret.value.outcome = "returned" =>
                   windows = WellFormedUpTo(Len(call.audio_segments))
            /\ \A k \in 2..Len(calls) :
                   /\ calls[k].previous_progress = calls[k].recorded
                   /\ calls[k].previous_progress >= calls[k - 1].previous_progress

\* two well-formed windows around one that is not, the second one given the
\* progress reported during the first
C32_Witness ==
    /\ IsProgressRun
    /\ call.queue_id # 0
    /\ call.audio_segments = <<TRUE, FALSE, TRUE>>
    /\ ret.value.outcome = "returned"
    /\ Len(ret.value.calls) = 2
    /\ ret.value.calls[2].previous_progress > 0

====
